---- MODULE Spec2Model ----
(***************************************************************************)
(* Model of the data layer of ReportesServicio: models/activity_model.py   *)
(* (class Activity) and models/report_model.py (class Report).             *)
(*                                                                         *)
(* Python strings are modelled as sequences of one-character strings, so   *)
(* that parsing ("%H:%M"), formatting (f"{h:02d}:{m:02d}"), splitting and  *)
(* extension extraction are computed and not assumed.  A time attribute    *)
(* holds a Python value: a record [t, v] with t the type name and v the    *)
(* characters of a str.                                                    *)
(***************************************************************************)
EXTENDS Integers, Sequences, FiniteSets, TLC

VARIABLES title, description, start_time, end_time, _duration, images,
          entry_time, exit_time, _instance_hours,
          responsible, student, date, activities, data,
          start_time_input, end_time_input, duration_display,
          temp_images, tempdir, ret

vars == <<title, description, start_time, end_time, _duration, images,
          entry_time, exit_time, _instance_hours,
          responsible, student, date, activities, data,
          start_time_input, end_time_input, duration_display,
          temp_images, tempdir, ret>>

\* the widgets of the ActivityDialog that hold the times and show the duration
dialogFields == <<start_time_input, end_time_input, duration_display>>
\* the temporary images a PDFGenerator tracks and the files of the
\* temporary directory
generatorFields == <<temp_images, tempdir>>

\* QTime(h, m), and the null QTime() of a widget that does not exist
QTime(h, m) == [h |-> h, m |-> m]
NullQTime == QTime(-1, -1)

\* no ActivityDialog is open
NoDialog ==
    /\ start_time_input = NullQTime
    /\ end_time_input = NullQTime
    /\ duration_display = <<>>

\* no PDFGenerator has compressed anything
NoGenerator ==
    /\ temp_images = <<>>
    /\ tempdir = {}

activityFields == <<title, description, start_time, end_time, _duration, images>>
\* the attributes of the Report besides its times, and the dictionary last
\* handed to from_dict
reportRest == <<responsible, student, date, activities, data>>
reportFields == <<entry_time, exit_time, _instance_hours, reportRest>>

-----------------------------------------------------------------------------
(* Python values and strings *)

Str(s) == [t |-> "str", v |-> s]
None == [t |-> "NoneType", v |-> <<>>]
\* bool(x) for the values a time attribute can hold: a str, None or an int
\* (given by its decimal digits)
Truthy(x) == IF x.t = "str" THEN x.v # <<>>
             ELSE IF x.t = "int" THEN x.v # <<"0">>
             ELSE FALSE
isinstance_str(x) == x.t = "str"

DigitChars == <<"0", "1", "2", "3", "4", "5", "6", "7", "8", "9">>
IsDigit(c) == \E i \in 1..10 : DigitChars[i] = c
DigitVal(c) == (CHOOSE i \in 1..10 : DigitChars[i] = c) - 1
AllDigits(s) == \A i \in 1..Len(s) : IsDigit(s[i])

RECURSIVE DecVal(_)
\* value of a non-empty string of decimal digits
DecVal(s) == IF s = <<>> THEN 0
             ELSE 10 * DecVal(SubSeq(s, 1, Len(s) - 1)) + DigitVal(s[Len(s)])

RECURSIVE DecDigits(_)
\* decimal digits of a natural number, no padding
DecDigits(n) == IF n < 10 THEN <<DigitChars[n + 1]>>
                ELSE DecDigits(n \div 10) \o <<DigitChars[(n % 10) + 1]>>

\* the format specification ":02d": sign, then zero-padding to width 2
Format02d(n) ==
    LET body == IF n < 0 THEN <<"-">> \o DecDigits(-n) ELSE DecDigits(n)
    IN  IF Len(body) >= 2 THEN body
        ELSE IF n < 0 THEN <<"-", "0">> \o DecDigits(-n)
        ELSE <<"0">> \o body

Contains(s, c) == \E i \in 1..Len(s) : s[i] = c
FirstIndex(s, c) == CHOOSE i \in 1..Len(s) : s[i] = c /\ \A j \in 1..(i - 1) : s[j] # c
LastIndex(s, c) == CHOOSE i \in 1..Len(s) : s[i] = c /\ \A j \in (i + 1)..Len(s) : s[j] # c
CountOf(s, c) == Cardinality({i \in 1..Len(s) : s[i] = c})

\* str.split(":") : the pieces between the colons
RECURSIVE Split(_)
Split(s) == IF ~Contains(s, ":") THEN <<s>>
            ELSE LET i == FirstIndex(s, ":")
                 IN  <<SubSeq(s, 1, i - 1)>> \o Split(SubSeq(s, i + 1, Len(s)))

\* int(s) on a piece of a duration string; ok = FALSE is ValueError
IntOf(s) == IF s # <<>> /\ AllDigits(s) THEN [ok |-> TRUE, n |-> DecVal(s)]
            ELSE [ok |-> FALSE, n |-> 0]

-----------------------------------------------------------------------------
(* datetime.strptime(s, "%H:%M") and timedelta arithmetic *)

SecondsPerDay == 86400

\* %H is 2[0-3]|[0-1]\d|\d and %M is [0-5]\d|\d ; the whole string must match.
\* ok = FALSE is ValueError; secs is the offset from 1900-01-01 00:00:00.
strptime(s) ==
    IF \E k \in {1, 2} :
          /\ Len(s) >= k + 2
          /\ Len(s) <= k + 3
          /\ AllDigits(SubSeq(s, 1, k))
          /\ s[k + 1] = ":"
          /\ AllDigits(SubSeq(s, k + 2, Len(s)))
          /\ DecVal(SubSeq(s, 1, k)) <= 23
          /\ DecVal(SubSeq(s, k + 2, Len(s))) <= 59
    THEN LET k == FirstIndex(s, ":") - 1
         IN  [ok |-> TRUE,
              secs |-> DecVal(SubSeq(s, 1, k)) * 3600
                       + DecVal(SubSeq(s, k + 2, Len(s))) * 60]
    ELSE [ok |-> FALSE, secs |-> 0]

\* Python floor division and modulo by a positive number
FloorDiv(a, b) == IF a >= 0 THEN a \div b ELSE -((-a + b - 1) \div b)
FloorMod(a, b) == a - b * FloorDiv(a, b)

InvalidStartTime == <<"I","n","v","a","l","i","d"," ","s","t","a","r","t"," ","t","i","m","e">>
InvalidEndTime == <<"I","n","v","a","l","i","d"," ","e","n","d"," ","t","i","m","e">>
InvalidEntryTime == <<"I","n","v","a","l","i","d"," ","e","n","t","r","y"," ","t","i","m","e">>
InvalidExitTime == <<"I","n","v","a","l","i","d"," ","e","x","i","t"," ","t","i","m","e">>

-----------------------------------------------------------------------------
(* Activity: duration *)

_validate_format_hour(hour) ==
    IF ~Truthy(hour) \/ ~isinstance_str(hour) THEN FALSE
    ELSE strptime(hour.v).ok

\* the comparison written "end < start"
EndBeforeStart(endSecs, startSecs) == endSecs < startSecs

\* the comparison "end <= start" of calculate_duration
EndNotAfterStart(endSecs, startSecs) == endSecs <= startSecs

\* calculate_duration with the minutes taken from the whole difference
DurationOf_MinutesNotReduced(start, end) ==
    IF ~_validate_format_hour(start) THEN InvalidStartTime
    ELSE IF ~_validate_format_hour(end) THEN InvalidEndTime
    ELSE LET s == strptime(start.v).secs
             e0 == strptime(end.v).secs
             e == IF EndNotAfterStart(e0, s) THEN e0 + SecondsPerDay ELSE e0
             difference == e - s
             hours == FloorDiv(difference, 3600)
             minutes == FloorDiv(difference, 60)
         IN  Format02d(hours) \o <<":">> \o Format02d(minutes)

\* the value calculate_duration stores in _duration and returns
\* calculate_duration giving "00:00" for an end time that does not parse
DurationOf_NoEndSentinel(start, end) ==
    IF ~_validate_format_hour(start) THEN InvalidStartTime
    ELSE IF ~_validate_format_hour(end) THEN <<"0", "0", ":", "0", "0">>
    ELSE LET s == strptime(start.v).secs
             e0 == strptime(end.v).secs
             e == IF EndNotAfterStart(e0, s) THEN e0 + SecondsPerDay ELSE e0
             difference == e - s
             hours == FloorDiv(difference, 3600)
             minutes == FloorDiv(FloorMod(difference, 3600), 60)
         IN  Format02d(hours) \o <<":">> \o Format02d(minutes)

DurationOf(start, end) ==
    IF ~_validate_format_hour(start) THEN InvalidStartTime
    ELSE IF ~_validate_format_hour(end) THEN InvalidEndTime
    ELSE LET s == strptime(start.v).secs
             e0 == strptime(end.v).secs
             e == IF EndNotAfterStart(e0, s) THEN e0 + SecondsPerDay ELSE e0
             difference == e - s
             hours == FloorDiv(difference, 3600)
             minutes == FloorDiv(FloorMod(difference, 3600), 60)
         IN  Format02d(hours) \o <<":">> \o Format02d(minutes)

\* "hours, minutes = d.split(':'); return int(hours) * 60 + int(minutes)",
\* with ValueError giving 0
MinutesOfString(d) ==
    LET parts == Split(d)
    IN  IF Len(parts) # 2 THEN 0
        ELSE IF ~IntOf(parts[1]).ok \/ ~IntOf(parts[2]).ok THEN 0
        ELSE IntOf(parts[1]).n * 60 + IntOf(parts[2]).n

\* the value standing where no Activity is given or returned
NoActivity == [cls |-> "NoneType", title |-> <<>>, description |-> <<>>,
               start_time |-> None, end_time |-> None, _duration |-> <<>>,
               images |-> <<>>]

\* the value standing where no statistics are returned
NoStatistics ==
    [total_activities |-> 0, total_activity_hours |-> <<>>, instance_hours |-> <<>>,
     total_images |-> 0, activities_with_images |-> 0,
     average_activity_duration |-> <<>>, longest_activity |-> None,
     shortest_activity |-> None]

\* the shape of every operation's result: the outcome (ok, msg, num, sub, val,
\* stats, list) and the arguments of the call (path, idx, to, order, act, args)
Result(op) == [op |-> op, ok |-> TRUE, msg |-> "", num |-> 0, sub |-> 0,
               val |-> <<>>, path |-> <<>>, idx |-> 0, to |-> 0, order |-> <<>>,
               act |-> NoActivity, stats |-> NoStatistics, list |-> <<>>,
               args |-> <<>>]

\* self._duration after __init__ (lines 36-39)
InitialDuration(start, end) ==
    IF Truthy(start) /\ Truthy(end) THEN DurationOf(start, end) ELSE <<>>

calculate_duration ==
    /\ _duration' = DurationOf(start_time, end_time)
    /\ ret' = [Result("calculate_duration") EXCEPT !.val = _duration']
    /\ UNCHANGED <<title, description, start_time, end_time, images, reportFields>>
    /\ UNCHANGED <<dialogFields, generatorFields>>

\* the condition under which the property "duration" recomputes
DurationNeedsCalc(d) == d = <<>>

duration ==
    /\ _duration' = IF DurationNeedsCalc(_duration)
                    THEN DurationOf(start_time, end_time) ELSE _duration
    /\ ret' = [Result("duration") EXCEPT !.val = _duration']
    /\ UNCHANGED <<title, description, start_time, end_time, images, reportFields>>
    /\ UNCHANGED <<dialogFields, generatorFields>>

get_duration_in_minutes ==
    /\ _duration' = IF _duration = <<>> \/ ~Contains(_duration, ":")
                    THEN DurationOf(start_time, end_time) ELSE _duration
    /\ ret' = [Result("get_duration_in_minutes") EXCEPT
                 !.num = IF ~Contains(_duration', ":") THEN 0
                         ELSE MinutesOfString(_duration')]
    /\ UNCHANGED <<title, description, start_time, end_time, images, reportFields>>
    /\ UNCHANGED <<dialogFields, generatorFields>>

\* activity.start_time = t
set_start_time(t) ==
    /\ start_time' = t
    /\ ret' = Result("set_start_time")
    /\ UNCHANGED <<title, description, end_time, _duration, images, reportFields>>
    /\ UNCHANGED <<dialogFields, generatorFields>>

\* activity.end_time = t
set_end_time(t) ==
    /\ end_time' = t
    /\ ret' = Result("set_end_time")
    /\ UNCHANGED <<title, description, start_time, _duration, images, reportFields>>
    /\ UNCHANGED <<dialogFields, generatorFields>>

-----------------------------------------------------------------------------
(* Report: instance hours *)

Report_validate_format_hour(hour) ==
    IF ~Truthy(hour) \/ ~isinstance_str(hour) THEN FALSE
    ELSE strptime(hour.v).ok

\* the comparison written "exit_dt < entry"
ExitBeforeEntry(exitSecs, entrySecs) == exitSecs < entrySecs

\* the comparison "exit_dt <= entry" of calculate_instance_hours
ExitNotAfterEntry(exitSecs, entrySecs) == exitSecs <= entrySecs

\* the value calculate_instance_hours stores in _instance_hours and returns
InstanceHoursOf(entry, exit) ==
    IF ~Report_validate_format_hour(entry) THEN InvalidEntryTime
    ELSE IF ~Report_validate_format_hour(exit) THEN InvalidExitTime
    ELSE LET s == strptime(entry.v).secs
             e0 == strptime(exit.v).secs
             e == IF ExitNotAfterEntry(e0, s) THEN e0 + SecondsPerDay ELSE e0
             difference == e - s
             hours == FloorDiv(difference, 3600)
             minutes == FloorDiv(FloorMod(difference, 3600), 60)
         IN  Format02d(hours) \o <<":">> \o Format02d(minutes)

\* self._instance_hours after __init__ (lines 48-52)
InitialInstanceHours(entry, exit) ==
    IF Truthy(entry) /\ Truthy(exit) THEN InstanceHoursOf(entry, exit) ELSE <<>>

calculate_instance_hours ==
    /\ _instance_hours' = InstanceHoursOf(entry_time, exit_time)
    /\ ret' = [Result("calculate_instance_hours") EXCEPT !.val = _instance_hours']
    /\ UNCHANGED <<activityFields, entry_time, exit_time, reportRest>>
    /\ UNCHANGED <<dialogFields, generatorFields>>

\* the condition under which the property "instance_hours" recomputes
InstanceHoursNeedsCalc(d) == d = <<>>

instance_hours ==
    /\ _instance_hours' = IF InstanceHoursNeedsCalc(_instance_hours)
                          THEN InstanceHoursOf(entry_time, exit_time)
                          ELSE _instance_hours
    /\ ret' = [Result("instance_hours") EXCEPT !.val = _instance_hours']
    /\ UNCHANGED <<activityFields, entry_time, exit_time, reportRest>>
    /\ UNCHANGED <<dialogFields, generatorFields>>

get_instance_hours_in_minutes ==
    /\ _instance_hours' = IF _instance_hours = <<>> \/ ~Contains(_instance_hours, ":")
                          THEN InstanceHoursOf(entry_time, exit_time)
                          ELSE _instance_hours
    /\ ret' = [Result("get_instance_hours_in_minutes") EXCEPT
                 !.num = IF ~Contains(_instance_hours', ":") THEN 0
                         ELSE MinutesOfString(_instance_hours')]
    /\ UNCHANGED <<activityFields, entry_time, exit_time, reportRest>>
    /\ UNCHANGED <<dialogFields, generatorFields>>

\* report.entry_time = t
set_entry_time(t) ==
    /\ entry_time' = t
    /\ ret' = Result("set_entry_time")
    /\ UNCHANGED <<activityFields, exit_time, _instance_hours, reportRest>>
    /\ UNCHANGED <<dialogFields, generatorFields>>

\* report.exit_time = t
set_exit_time(t) ==
    /\ exit_time' = t
    /\ ret' = Result("set_exit_time")
    /\ UNCHANGED <<activityFields, entry_time, _instance_hours, reportRest>>
    /\ UNCHANGED <<dialogFields, generatorFields>>

-----------------------------------------------------------------------------
(* The file system seen by os.path.exists and os.path.getsize *)

MAX_IMAGES == 5
MAX_SIZE_IMAGE_MB == 10
FORMATS_ALLOW_IMAGE == {<<".", "j", "p", "g">>, <<".", "j", "p", "e", "g">>,
                        <<".", "p", "n", "g">>}
BytesPerMB == 1024 * 1024

Path_a_jpg == <<"a", ".", "j", "p", "g">>
Path_b_PNG == <<"b", ".", "P", "N", "G">>
Path_d_c_jpeg == <<"d", "/", "c", ".", "j", "p", "e", "g">>
Path_d_png == <<"d", ".", "p", "n", "g">>
Path_e_gif == <<"e", ".", "g", "i", "f">>
Path_f_txt == <<"f", ".", "t", "x", "t">>
Path_dot_png == <<".", "p", "n", "g">>

Paths == {Path_a_jpg, Path_b_PNG, Path_d_c_jpeg, Path_d_png, Path_e_gif,
          Path_f_txt, Path_dot_png}

\* a.jpg: 2 KB.  b.PNG: exactly 10 MB.  d/c.jpeg: 10 MB and one byte.
\* d.png: absent.  e.gif: 10 MB and one byte.  f.txt: absent.
\* .png: a 2 KB file whose name has no extension.
Files ==
    [p \in Paths |->
        IF p = Path_a_jpg THEN [exists |-> TRUE, size |-> 2048]
        ELSE IF p = Path_b_PNG THEN [exists |-> TRUE, size |-> 10 * BytesPerMB]
        ELSE IF p = Path_d_c_jpeg THEN [exists |-> TRUE, size |-> 10 * BytesPerMB + 1]
        ELSE IF p = Path_d_png THEN [exists |-> FALSE, size |-> 0]
        ELSE IF p = Path_e_gif THEN [exists |-> TRUE, size |-> 10 * BytesPerMB + 1]
        ELSE IF p = Path_f_txt THEN [exists |-> FALSE, size |-> 0]
        ELSE [exists |-> TRUE, size |-> 2048]]

os_path_exists(p) == p \in DOMAIN Files /\ Files[p].exists
os_path_getsize(p) == Files[p].size

UpperCase == <<"A","B","C","D","E","F","G","H","I","J","K","L","M",
               "N","O","P","Q","R","S","T","U","V","W","X","Y","Z">>
LowerCase == <<"a","b","c","d","e","f","g","h","i","j","k","l","m",
               "n","o","p","q","r","s","t","u","v","w","x","y","z">>

\* str.lower()
lower(s) == [i \in 1..Len(s) |->
               IF \E k \in 1..26 : UpperCase[k] = s[i]
               THEN LowerCase[CHOOSE k \in 1..26 : UpperCase[k] = s[i]]
               ELSE s[i]]

\* os.path.splitext(p)[1]: from the last dot of the last component, unless
\* only dots precede it in that component
splitext_ext(p) ==
    LET sepIndex == IF Contains(p, "/") THEN LastIndex(p, "/") ELSE 0
        dotIndex == IF Contains(p, ".") THEN LastIndex(p, ".") ELSE 0
    IN  IF dotIndex > sepIndex
           /\ \E i \in (sepIndex + 1)..(dotIndex - 1) : p[i] # "."
        THEN SubSeq(p, dotIndex, Len(p))
        ELSE <<>>

\* "size_mb = getsize / (1024 * 1024); size_mb > MAX_SIZE_IMAGE_MB": the
\* division by 2^20 is exact in binary floating point, so the comparison is
\* the comparison of the byte count with MAX_SIZE_IMAGE_MB * 2^20
TooLarge(p) == os_path_getsize(p) > MAX_SIZE_IMAGE_MB * BytesPerMB

-----------------------------------------------------------------------------
(* Activity: image management *)

Outcome(ok, msg, num, imgs) == [ok |-> ok, msg |-> msg, num |-> num, images |-> imgs]

\* the limit test written "len(self.images) > self.MAX_IMAGES"
LimitExceeded(n) == n > MAX_IMAGES

\* the limit test "len(self.images) >= self.MAX_IMAGES" of add_image
LimitReached(n) == n >= MAX_IMAGES

\* add_image with the extension tested before the existence of the file
AddImageOutcome_ExtensionFirst(imgs, path_image) ==
    IF LimitReached(Len(imgs))
    THEN Outcome(FALSE, "Limit of {MAX_IMAGES} images reached", MAX_IMAGES, imgs)
    ELSE IF lower(splitext_ext(path_image)) \notin FORMATS_ALLOW_IMAGE
    THEN Outcome(FALSE, "Invalid format. Use: .jpg, .jpeg, .png", 0, imgs)
    ELSE IF ~os_path_exists(path_image)
    THEN Outcome(FALSE, "File does not exist", 0, imgs)
    ELSE IF TooLarge(path_image)
    THEN Outcome(FALSE, "Image too large ({size_mb}MB). Maximum {MAX_SIZE_IMAGE_MB}MB",
                 MAX_SIZE_IMAGE_MB, imgs)
    ELSE Outcome(TRUE, "Image added ({len}/{MAX_IMAGES})", Len(imgs) + 1,
                 Append(imgs, path_image))

\* add_image appending before the size test
AddImageOutcome_AppendEarly(imgs, path_image) ==
    IF LimitReached(Len(imgs))
    THEN Outcome(FALSE, "Limit of {MAX_IMAGES} images reached", MAX_IMAGES, imgs)
    ELSE IF ~os_path_exists(path_image)
    THEN Outcome(FALSE, "File does not exist", 0, imgs)
    ELSE IF lower(splitext_ext(path_image)) \notin FORMATS_ALLOW_IMAGE
    THEN Outcome(FALSE, "Invalid format. Use: .jpg, .jpeg, .png", 0, imgs)
    ELSE IF TooLarge(path_image)
    THEN Outcome(FALSE, "Image too large ({size_mb}MB). Maximum {MAX_SIZE_IMAGE_MB}MB",
                 MAX_SIZE_IMAGE_MB, Append(imgs, path_image))
    ELSE Outcome(TRUE, "Image added ({len}/{MAX_IMAGES})", Len(imgs) + 1,
                 Append(imgs, path_image))

\* what add_image(path_image) returns and the list it leaves
\* add_image without the test of the extension
AddImageOutcome_NoExtensionTest(imgs, path_image) ==
    IF LimitReached(Len(imgs))
    THEN Outcome(FALSE, "Limit of {MAX_IMAGES} images reached", MAX_IMAGES, imgs)
    ELSE IF ~os_path_exists(path_image)
    THEN Outcome(FALSE, "File does not exist", 0, imgs)
    ELSE IF TooLarge(path_image)
    THEN Outcome(FALSE, "Image too large ({size_mb}MB). Maximum {MAX_SIZE_IMAGE_MB}MB",
                 MAX_SIZE_IMAGE_MB, imgs)
    ELSE Outcome(TRUE, "Image added ({len}/{MAX_IMAGES})", Len(imgs) + 1,
                 Append(imgs, path_image))

AddImageOutcome(imgs, path_image) ==
    IF LimitReached(Len(imgs))
    THEN Outcome(FALSE, "Limit of {MAX_IMAGES} images reached", MAX_IMAGES, imgs)
    ELSE IF ~os_path_exists(path_image)
    THEN Outcome(FALSE, "File does not exist", 0, imgs)
    ELSE IF lower(splitext_ext(path_image)) \notin FORMATS_ALLOW_IMAGE
    THEN Outcome(FALSE, "Invalid format. Use: .jpg, .jpeg, .png", 0, imgs)
    ELSE IF TooLarge(path_image)
    THEN Outcome(FALSE, "Image too large ({size_mb}MB). Maximum {MAX_SIZE_IMAGE_MB}MB",
                 MAX_SIZE_IMAGE_MB, imgs)
    ELSE Outcome(TRUE, "Image added ({len}/{MAX_IMAGES})", Len(imgs) + 1,
                 Append(imgs, path_image))

\* list.pop(index) for an index in range, 0-based
Pop(imgs, index) == SubSeq(imgs, 1, index) \o SubSeq(imgs, index + 2, Len(imgs))

DeleteImageOutcome(imgs, index) ==
    IF 0 <= index /\ index < Len(imgs)
    THEN Outcome(TRUE, "Image deleted", 0, Pop(imgs, index))
    ELSE Outcome(FALSE, "Invalid index", 0, imgs)

\* delete_image_by_path taking out the last occurrence of the path
DeleteImageByPathOutcome_LastOccurrence(imgs, path) ==
    IF \E i \in 1..Len(imgs) : imgs[i] = path
    THEN Outcome(TRUE, "Image deleted", 0, Pop(imgs, LastIndex(imgs, path) - 1))
    ELSE Outcome(FALSE, "Image not found", 0, imgs)

\* list.remove(path): the first occurrence goes
DeleteImageByPathOutcome(imgs, path) ==
    IF \E i \in 1..Len(imgs) : imgs[i] = path
    THEN Outcome(TRUE, "Image deleted", 0, Pop(imgs, FirstIndex(imgs, path) - 1))
    ELSE Outcome(FALSE, "Image not found", 0, imgs)

\* set(new_order)
SetOf(seq) == {seq[i] : i \in 1..Len(seq)}

\* the comprehension [self.images[i] for i in new_order] written with the
\* inverse of the order
Reordered_Inverse(imgs, new_order) ==
    [i \in 1..Len(new_order) |->
        imgs[CHOOSE j \in 1..Len(new_order) : new_order[j] = i - 1]]

\* [self.images[i] for i in new_order], indices 0-based
Reordered(imgs, new_order) ==
    [i \in 1..Len(new_order) |-> imgs[new_order[i] + 1]]

\* reorganize_images without the test on the set of indices
ReorganizeOutcome_NoSetTest(imgs, new_order) ==
    IF Len(new_order) # Len(imgs)
    THEN Outcome(FALSE, "Number of indices doesn't match", 0, imgs)
    ELSE IF \E i \in 1..Len(new_order) :
               new_order[i] < -Len(imgs) \/ new_order[i] >= Len(imgs)
    THEN Outcome(FALSE, "Error reordering images", 0, imgs)
    ELSE Outcome(TRUE, "Images reordered", 0,
                 [i \in 1..Len(new_order) |->
                     imgs[IF new_order[i] < 0 THEN new_order[i] + Len(imgs) + 1
                          ELSE new_order[i] + 1]])

ReorganizeOutcome(imgs, new_order) ==
    IF Len(new_order) # Len(imgs)
    THEN Outcome(FALSE, "Number of indices doesn't match", 0, imgs)
    ELSE IF SetOf(new_order) # 0..(Len(imgs) - 1)
    THEN Outcome(FALSE, "Invalid indices", 0, imgs)
    ELSE Outcome(TRUE, "Images reordered", 0, Reordered(imgs, new_order))

add_image(path_image) ==
    \E out \in {AddImageOutcome(images, path_image)} :
        /\ images' = out.images
        /\ ret' = [Result("add_image") EXCEPT !.ok = out.ok, !.msg = out.msg,
                                              !.num = out.num, !.path = path_image]
        /\ UNCHANGED <<title, description, start_time, end_time, _duration, reportFields>>
        /\ UNCHANGED <<dialogFields, generatorFields>>

delete_image(index) ==
    \E out \in {DeleteImageOutcome(images, index)} :
        /\ images' = out.images
        /\ ret' = [Result("delete_image") EXCEPT !.ok = out.ok, !.msg = out.msg,
                                                 !.idx = index]
        /\ UNCHANGED <<title, description, start_time, end_time, _duration, reportFields>>
        /\ UNCHANGED <<dialogFields, generatorFields>>

delete_image_by_path(path) ==
    \E out \in {DeleteImageByPathOutcome(images, path)} :
        /\ images' = out.images
        /\ ret' = [Result("delete_image_by_path") EXCEPT !.ok = out.ok, !.msg = out.msg,
                                                         !.path = path]
        /\ UNCHANGED <<title, description, start_time, end_time, _duration, reportFields>>
        /\ UNCHANGED <<dialogFields, generatorFields>>

reorganize_images(new_order) ==
    \E out \in {ReorganizeOutcome(images, new_order)} :
        /\ images' = out.images
        /\ ret' = [Result("reorganize_images") EXCEPT !.ok = out.ok, !.msg = out.msg,
                                                      !.order = new_order]
        /\ UNCHANGED <<title, description, start_time, end_time, _duration, reportFields>>
        /\ UNCHANGED <<dialogFields, generatorFields>>

clean_images ==
    /\ images' = <<>>
    /\ ret' = Result("clean_images")
    /\ UNCHANGED <<title, description, start_time, end_time, _duration, reportFields>>
    /\ UNCHANGED <<dialogFields, generatorFields>>

-----------------------------------------------------------------------------
(* Activity: validation *)

Verdict(ok, msg, num) == [ok |-> ok, msg |-> msg, num |-> num]

Whitespace == {" ", "\t", "\n", "\r"}

\* str.strip()
RECURSIVE strip(_)
strip(s) == IF s = <<>> THEN s
            ELSE IF s[1] \in Whitespace THEN strip(Tail(s))
            ELSE IF s[Len(s)] \in Whitespace THEN strip(SubSeq(s, 1, Len(s) - 1))
            ELSE s

validate_required_fields(ti, de, st, en) ==
    IF ti = <<>> \/ strip(ti) = <<>> THEN Verdict(FALSE, "Title is required", 0)
    ELSE IF de = <<>> \/ strip(de) = <<>> THEN Verdict(FALSE, "Description is required", 0)
    ELSE IF ~Truthy(st) THEN Verdict(FALSE, "Start time is required", 0)
    ELSE IF ~Truthy(en) THEN Verdict(FALSE, "End time is required", 0)
    ELSE Verdict(TRUE, "All fields complete", 0)

\* "h, m = map(int, t.split(':'))" followed by the range test; err is ValueError
HourMinuteInRange(t) ==
    LET parts == Split(t)
    IN  IF Len(parts) # 2 \/ ~IntOf(parts[1]).ok \/ ~IntOf(parts[2]).ok
        THEN [err |-> TRUE, inRange |-> FALSE]
        ELSE [err |-> FALSE,
              inRange |-> /\ 0 <= IntOf(parts[1]).n /\ IntOf(parts[1]).n <= 23
                          /\ 0 <= IntOf(parts[2]).n /\ IntOf(parts[2]).n <= 59]

validate_hours(st, en) ==
    IF ~_validate_format_hour(st)
    THEN Verdict(FALSE, "Invalid start time: '{start_time}'. Use HH:MM format (00:00 - 23:59)", 0)
    ELSE IF ~_validate_format_hour(en)
    THEN Verdict(FALSE, "Invalid end time: '{end_time}'. Use HH:MM format (00:00 - 23:59)", 0)
    ELSE IF HourMinuteInRange(st.v).err \/ HourMinuteInRange(en.v).err
    THEN Verdict(FALSE, "Error processing times", 0)
    ELSE IF ~HourMinuteInRange(st.v).inRange
    THEN Verdict(FALSE, "Start time out of range (00:00 - 23:59)", 0)
    ELSE IF ~HourMinuteInRange(en.v).inRange
    THEN Verdict(FALSE, "End time out of range (00:00 - 23:59)", 0)
    ELSE Verdict(TRUE, "Valid hours", 0)

\* the test one image undergoes in the loop of validate_images:
\* "" when it passes, else the message
ImageFault(path) ==
    IF ~os_path_exists(path) THEN "Image {i+1} not found: {path}"
    ELSE IF lower(splitext_ext(path)) \notin FORMATS_ALLOW_IMAGE
    THEN "Image {i+1} with invalid format"
    ELSE ""

RECURSIVE FirstFault(_, _)
\* the loop "for i, path in enumerate(self.images)" from position i on:
\* the 1-based position of the first image that fails, 0 when none does
FirstFault(imgs, i) ==
    IF i > Len(imgs) THEN 0
    ELSE IF ImageFault(imgs[i]) # "" THEN i
    ELSE FirstFault(imgs, i + 1)

\* num is the 1-based position of the first image that fails
validate_images(imgs) ==
    IF Len(imgs) > MAX_IMAGES THEN Verdict(FALSE, "Too many images (max: {MAX_IMAGES})", MAX_IMAGES)
    ELSE LET i == FirstFault(imgs, 1)
         IN  IF i # 0 THEN Verdict(FALSE, ImageFault(imgs[i]), i)
             ELSE Verdict(TRUE, "Valid images", 0)

\* complete_validate with the hours validated before the required fields
complete_validate_HoursFirst(ti, de, st, en, imgs) ==
    LET hours == validate_hours(st, en)
    IN  IF ~hours.ok THEN hours
        ELSE LET fields == validate_required_fields(ti, de, st, en)
             IN  IF ~fields.ok THEN fields
                 ELSE LET imgsVerdict == validate_images(imgs)
                      IN  IF ~imgsVerdict.ok THEN imgsVerdict
                          ELSE Verdict(TRUE, "Valid activity", 0)

complete_validate(ti, de, st, en, imgs) ==
    LET fields == validate_required_fields(ti, de, st, en)
    IN  IF ~fields.ok THEN fields
        ELSE LET hours == validate_hours(st, en)
             IN  IF ~hours.ok THEN hours
                 ELSE LET imgsVerdict == validate_images(imgs)
                      IN  IF ~imgsVerdict.ok THEN imgsVerdict
                          ELSE Verdict(TRUE, "Valid activity", 0)

\* activity.validate_required_fields()
call_validate_required_fields ==
    \E v \in {validate_required_fields(title, description, start_time, end_time)} :
        /\ ret' = [Result("validate_required_fields") EXCEPT !.ok = v.ok, !.msg = v.msg]
        /\ UNCHANGED <<activityFields, reportFields>>
        /\ UNCHANGED <<dialogFields, generatorFields>>

\* activity.validate_hours()
call_validate_hours ==
    \E v \in {validate_hours(start_time, end_time)} :
        /\ ret' = [Result("validate_hours") EXCEPT !.ok = v.ok, !.msg = v.msg]
        /\ UNCHANGED <<activityFields, reportFields>>
        /\ UNCHANGED <<dialogFields, generatorFields>>

\* activity.validate_images()
call_validate_images ==
    \E v \in {validate_images(images)} :
        /\ ret' = [Result("validate_images") EXCEPT !.ok = v.ok, !.msg = v.msg, !.num = v.num]
        /\ UNCHANGED <<activityFields, reportFields>>
        /\ UNCHANGED <<dialogFields, generatorFields>>

\* activity.complete_validate()
call_complete_validate ==
    \E v \in {complete_validate(title, description, start_time, end_time, images)} :
        /\ ret' = [Result("complete_validate") EXCEPT !.ok = v.ok, !.msg = v.msg, !.num = v.num]
        /\ UNCHANGED <<activityFields, reportFields>>
        /\ UNCHANGED <<dialogFields, generatorFields>>

-----------------------------------------------------------------------------
(* Inputs *)

TimeHours == {0, 1, 9, 11, 23}
TimeMinutes == {0, 30, 59}

\* the zero-padded string "HH:MM" for hour h and minute m
Clock(h, m) == Str(<<DigitChars[(h \div 10) + 1], DigitChars[(h % 10) + 1], ":",
                     DigitChars[(m \div 10) + 1], DigitChars[(m % 10) + 1]>>)

WellFormedTimes == {Clock(h, m) : h \in TimeHours, m \in TimeMinutes}

\* "", "24:00", "12:60", "9:5" (accepted by %H:%M, not zero-padded) and None
OtherTimes == {Str(<<>>), Str(<<"2", "4", ":", "0", "0">>),
               Str(<<"1", "2", ":", "6", "0">>), Str(<<"9", ":", "5">>), None}

TimeInputs == WellFormedTimes \cup OtherTimes

DefaultTime == Clock(0, 0)
SomeTitle == <<"T">>
SomeDescription == <<"D">>

\* an Activity built by Activity(title, description, start, end)
NewActivity(ti, de, start, end, imgs) ==
    /\ title = ti
    /\ description = de
    /\ start_time = start
    /\ end_time = end
    /\ images = imgs
    /\ _duration = InitialDuration(start, end)

\* a date object, and the value of an attribute that holds none
DateOf(y, m, d) == [t |-> "date", y |-> y, m |-> m, d |-> d]
NoDate == [t |-> "NoneType", y |-> 0, m |-> 0, d |-> 0]

\* date.today()
Today == DateOf(2026, 11, 2)

\* the empty dictionary
EmptyDict == [k \in {} |-> 0]

\* a Report built by Report(responsible, student, report_date, entry_time,
\* exit_time, activities); a report_date of None becomes today
NewReportWith(resp, stu, report_date, entry, exit, acts) ==
    /\ responsible = resp
    /\ student = stu
    /\ date = IF report_date # NoDate THEN report_date ELSE Today
    /\ entry_time = entry
    /\ exit_time = exit
    /\ activities = acts
    /\ _instance_hours = InitialInstanceHours(entry, exit)
    /\ data = EmptyDict

\* a Report built by Report(entry_time = entry, exit_time = exit)
NewReport(entry, exit) == NewReportWith(<<>>, <<>>, NoDate, entry, exit, <<>>)

-----------------------------------------------------------------------------
(* Report: the list of activities *)

\* an Activity object built by Activity(title, description, start, end, images)
MkActivity(ti, de, st, en, imgs) ==
    [cls |-> "Activity", title |-> ti, description |-> de, start_time |-> st,
     end_time |-> en, _duration |-> InitialDuration(st, en), images |-> imgs]

\* isinstance(x, Activity)
isinstance_Activity(x) == x.cls = "Activity"

\* activity.complete_validate() on an Activity object
ActivityVerdict(a) ==
    complete_validate(a.title, a.description, a.start_time, a.end_time, a.images)

\* 0 <= index < len(self.activities)
IndexInRange(acts, index) == 0 <= index /\ index < Len(acts)

\* list.insert(index, x)
Insert(list, index, x) ==
    LET at == IF index < 0 THEN (IF Len(list) + index < 0 THEN 0 ELSE Len(list) + index)
              ELSE IF index > Len(list) THEN Len(list)
              ELSE index
    IN  SubSeq(list, 1, at) \o <<x>> \o SubSeq(list, at + 1, Len(list))

\* what a method of the list returns and leaves in self.activities: num is
\* the number a message holds, sub the position of an image named by the
\* message of the activity, val the title a message quotes
ListOutcome(ok, msg, num, sub, val, acts) ==
    [ok |-> ok, msg |-> msg, num |-> num, sub |-> sub, val |-> val, activities |-> acts]

\* add_activity putting the activity in front of the list
AddActivityOutcome_InsertFirst(acts, activity) ==
    IF ~isinstance_Activity(activity)
    THEN ListOutcome(FALSE, "Invalid activity object", 0, 0, <<>>, acts)
    ELSE LET v == ActivityVerdict(activity)
         IN  IF ~v.ok
             THEN ListOutcome(FALSE, "Invalid activity: " \o v.msg, 0, v.num, <<>>, acts)
             ELSE ListOutcome(TRUE, "Activity added (Total: {len})", Len(acts) + 1, 0,
                              <<>>, <<activity>> \o acts)

AddActivityOutcome(acts, activity) ==
    IF ~isinstance_Activity(activity)
    THEN ListOutcome(FALSE, "Invalid activity object", 0, 0, <<>>, acts)
    ELSE LET v == ActivityVerdict(activity)
         IN  IF ~v.ok
             THEN ListOutcome(FALSE, "Invalid activity: " \o v.msg, 0, v.num, <<>>, acts)
             ELSE ListOutcome(TRUE, "Activity added (Total: {len})", Len(acts) + 1, 0,
                              <<>>, Append(acts, activity))

RemoveActivityOutcome(acts, index) ==
    IF IndexInRange(acts, index)
    THEN ListOutcome(TRUE, "Activity '{removed.title}' removed", 0, 0,
                     acts[index + 1].title, Pop(acts, index))
    ELSE ListOutcome(FALSE, "Invalid index", 0, 0, <<>>, acts)

\* edit_activity storing the new activity without validating it
EditActivityOutcome_NoValidation(acts, index, updated_activity) ==
    IF ~IndexInRange(acts, index)
    THEN ListOutcome(FALSE, "Invalid index", 0, 0, <<>>, acts)
    ELSE IF ~isinstance_Activity(updated_activity)
    THEN ListOutcome(FALSE, "Invalid activity object", 0, 0, <<>>, acts)
    ELSE ListOutcome(TRUE, "Activity '{old_title}' updated", 0, 0,
                     acts[index + 1].title,
                     [acts EXCEPT ![index + 1] = updated_activity])

\* edit_activity validating the new activity before it looks at the index
EditActivityOutcome_ValidationFirst(acts, index, updated_activity) ==
    IF ~isinstance_Activity(updated_activity)
    THEN ListOutcome(FALSE, "Invalid activity object", 0, 0, <<>>, acts)
    ELSE LET v == ActivityVerdict(updated_activity)
         IN  IF ~v.ok
             THEN ListOutcome(FALSE, "Invalid activity: " \o v.msg, 0, v.num, <<>>, acts)
             ELSE IF ~IndexInRange(acts, index)
             THEN ListOutcome(FALSE, "Invalid index", 0, 0, <<>>, acts)
             ELSE ListOutcome(TRUE, "Activity '{old_title}' updated", 0, 0,
                              acts[index + 1].title,
                              [acts EXCEPT ![index + 1] = updated_activity])

EditActivityOutcome(acts, index, updated_activity) ==
    IF ~IndexInRange(acts, index)
    THEN ListOutcome(FALSE, "Invalid index", 0, 0, <<>>, acts)
    ELSE IF ~isinstance_Activity(updated_activity)
    THEN ListOutcome(FALSE, "Invalid activity object", 0, 0, <<>>, acts)
    ELSE LET v == ActivityVerdict(updated_activity)
         IN  IF ~v.ok
             THEN ListOutcome(FALSE, "Invalid activity: " \o v.msg, 0, v.num, <<>>, acts)
             ELSE ListOutcome(TRUE, "Activity '{old_title}' updated", 0, 0,
                              acts[index + 1].title,
                              [acts EXCEPT ![index + 1] = updated_activity])

\* move_activity exchanging the two positions
MoveActivityOutcome_Swap(acts, from_index, to_index) ==
    IF ~IndexInRange(acts, from_index)
    THEN ListOutcome(FALSE, "Invalid source index", 0, 0, <<>>, acts)
    ELSE IF ~IndexInRange(acts, to_index)
    THEN ListOutcome(FALSE, "Invalid destination index", 0, 0, <<>>, acts)
    ELSE ListOutcome(TRUE, "Activity '{activity.title}' moved", 0, 0,
                     acts[from_index + 1].title,
                     [acts EXCEPT ![from_index + 1] = acts[to_index + 1],
                                  ![to_index + 1] = acts[from_index + 1]])

MoveActivityOutcome(acts, from_index, to_index) ==
    IF ~IndexInRange(acts, from_index)
    THEN ListOutcome(FALSE, "Invalid source index", 0, 0, <<>>, acts)
    ELSE IF ~IndexInRange(acts, to_index)
    THEN ListOutcome(FALSE, "Invalid destination index", 0, 0, <<>>, acts)
    ELSE LET activity == acts[from_index + 1]
         IN  ListOutcome(TRUE, "Activity '{activity.title}' moved", 0, 0, activity.title,
                         Insert(Pop(acts, from_index), to_index, activity))

\* what the methods of the list leave alone
reportButActivities == <<entry_time, exit_time, _instance_hours,
                         responsible, student, date, data>>

\* the return value of a method of the list
ListResult(op, out) ==
    [Result(op) EXCEPT !.ok = out.ok, !.msg = out.msg, !.num = out.num,
                       !.sub = out.sub, !.val = out.val]

\* the length up to which add_activity is followed
MaxActivities == 3

\* report.add_activity(activity), on a list that has room left
add_activity(activity) ==
    /\ Len(activities) < MaxActivities
    /\ \E out \in {AddActivityOutcome(activities, activity)} :
          /\ activities' = out.activities
          /\ ret' = [ListResult("add_activity", out) EXCEPT !.act = activity]
    /\ UNCHANGED <<activityFields, reportButActivities>>
    /\ UNCHANGED <<dialogFields, generatorFields>>

\* report.remove_activity(index)
remove_activity(index) ==
    /\ \E out \in {RemoveActivityOutcome(activities, index)} :
          /\ activities' = out.activities
          /\ ret' = [ListResult("remove_activity", out) EXCEPT !.idx = index]
    /\ UNCHANGED <<activityFields, reportButActivities>>
    /\ UNCHANGED <<dialogFields, generatorFields>>

\* report.edit_activity(index, updated_activity)
edit_activity(index, updated_activity) ==
    /\ \E out \in {EditActivityOutcome(activities, index, updated_activity)} :
          /\ activities' = out.activities
          /\ ret' = [ListResult("edit_activity", out) EXCEPT !.idx = index,
                                                             !.act = updated_activity]
    /\ UNCHANGED <<activityFields, reportButActivities>>
    /\ UNCHANGED <<dialogFields, generatorFields>>

\* report.clear_activities()
clear_activities ==
    /\ activities' = <<>>
    /\ ret' = Result("clear_activities")
    /\ UNCHANGED <<activityFields, reportButActivities>>
    /\ UNCHANGED <<dialogFields, generatorFields>>

\* report.move_activity(from_index, to_index)
move_activity(from_index, to_index) ==
    /\ \E out \in {MoveActivityOutcome(activities, from_index, to_index)} :
          /\ activities' = out.activities
          /\ ret' = [ListResult("move_activity", out) EXCEPT !.idx = from_index,
                                                             !.to = to_index]
    /\ UNCHANGED <<activityFields, reportButActivities>>
    /\ UNCHANGED <<dialogFields, generatorFields>>

-----------------------------------------------------------------------------
(* Report: validation *)

ReportVerdict(ok, msg, num, sub) == [ok |-> ok, msg |-> msg, num |-> num, sub |-> sub]

Report_validate_times(entry, exit) ==
    IF ~Report_validate_format_hour(entry)
    THEN ReportVerdict(FALSE, "Invalid entry time: '{entry_time}'. Use HH:MM format (00:00 - 23:59)", 0, 0)
    ELSE IF ~Report_validate_format_hour(exit)
    THEN ReportVerdict(FALSE, "Invalid exit time: '{exit_time}'. Use HH:MM format (00:00 - 23:59)", 0, 0)
    ELSE IF HourMinuteInRange(entry.v).err \/ HourMinuteInRange(exit.v).err
    THEN ReportVerdict(FALSE, "Error processing times", 0, 0)
    ELSE IF ~HourMinuteInRange(entry.v).inRange
    THEN ReportVerdict(FALSE, "Entry time out of range (00:00 - 23:59)", 0, 0)
    ELSE IF ~HourMinuteInRange(exit.v).inRange
    THEN ReportVerdict(FALSE, "Exit time out of range (00:00 - 23:59)", 0, 0)
    ELSE ReportVerdict(TRUE, "Valid times", 0, 0)

Report_validate_required_fields(resp, stu, d, entry, exit) ==
    IF resp = <<>> \/ strip(resp) = <<>>
    THEN ReportVerdict(FALSE, "Responsible name is required", 0, 0)
    ELSE IF stu = <<>> \/ strip(stu) = <<>>
    THEN ReportVerdict(FALSE, "Student name is required", 0, 0)
    ELSE IF d = NoDate THEN ReportVerdict(FALSE, "Date is required", 0, 0)
    ELSE IF ~Truthy(entry) THEN ReportVerdict(FALSE, "Entry time is required", 0, 0)
    ELSE IF ~Truthy(exit) THEN ReportVerdict(FALSE, "Exit time is required", 0, 0)
    ELSE ReportVerdict(TRUE, "All required fields complete", 0, 0)

RECURSIVE FirstInvalidActivity(_, _)
\* the loop "for i, activity in enumerate(self.activities)" from position i
\* on: the 1-based position of the first activity that fails, 0 when none does
FirstInvalidActivity(acts, i) ==
    IF i > Len(acts) THEN 0
    ELSE IF ~ActivityVerdict(acts[i]).ok THEN i
    ELSE FirstInvalidActivity(acts, i + 1)

\* validate_activities reporting the last activity that fails
validate_activities_LastInvalid(acts) ==
    IF Len(acts) = 0
    THEN ReportVerdict(FALSE, "Report must contain at least one activity", 0, 0)
    ELSE LET bad == {i \in 1..Len(acts) : ~ActivityVerdict(acts[i]).ok}
         IN  IF bad # {}
             THEN LET i == CHOOSE j \in bad : \A k \in bad : k <= j
                      v == ActivityVerdict(acts[i])
                  IN  ReportVerdict(FALSE, "Activity {i+1} invalid: " \o v.msg, i, v.num)
             ELSE ReportVerdict(TRUE, "All activities valid", 0, 0)

\* num is the 1-based position of the first activity that fails
validate_activities(acts) ==
    IF Len(acts) = 0
    THEN ReportVerdict(FALSE, "Report must contain at least one activity", 0, 0)
    ELSE LET i == FirstInvalidActivity(acts, 1)
         IN  IF i # 0
             THEN LET v == ActivityVerdict(acts[i])
                  IN  ReportVerdict(FALSE, "Activity {i+1} invalid: " \o v.msg, i, v.num)
             ELSE ReportVerdict(TRUE, "All activities valid", 0, 0)

\* Report.complete_validate passing a report without activities
Report_complete_validate_EmptyAllowed(resp, stu, d, entry, exit, acts) ==
    LET fields == Report_validate_required_fields(resp, stu, d, entry, exit)
    IN  IF ~fields.ok THEN fields
        ELSE LET times == Report_validate_times(entry, exit)
             IN  IF ~times.ok THEN times
                 ELSE LET actsVerdict == validate_activities(acts)
                      IN  IF ~actsVerdict.ok /\ acts # <<>> THEN actsVerdict
                          ELSE ReportVerdict(TRUE, "Valid report", 0, 0)

Report_complete_validate(resp, stu, d, entry, exit, acts) ==
    LET fields == Report_validate_required_fields(resp, stu, d, entry, exit)
    IN  IF ~fields.ok THEN fields
        ELSE LET times == Report_validate_times(entry, exit)
             IN  IF ~times.ok THEN times
                 ELSE LET actsVerdict == validate_activities(acts)
                      IN  IF ~actsVerdict.ok THEN actsVerdict
                          ELSE ReportVerdict(TRUE, "Valid report", 0, 0)

\* the return value of a validation method of Report
VerdictResult(op, v) ==
    [Result(op) EXCEPT !.ok = v.ok, !.msg = v.msg, !.num = v.num, !.sub = v.sub]

\* report.date = d
set_date(d) ==
    /\ date' = d
    /\ ret' = Result("set_date")
    /\ UNCHANGED <<activityFields, entry_time, exit_time, _instance_hours,
                   responsible, student, activities, data>>
    /\ UNCHANGED <<dialogFields, generatorFields>>

\* report.validate_times()
call_Report_validate_times ==
    /\ ret' = VerdictResult("Report.validate_times",
                            Report_validate_times(entry_time, exit_time))
    /\ UNCHANGED <<activityFields, reportFields>>
    /\ UNCHANGED <<dialogFields, generatorFields>>

\* report.validate_required_fields()
call_Report_validate_required_fields ==
    /\ ret' = VerdictResult("Report.validate_required_fields",
                            Report_validate_required_fields(responsible, student, date,
                                                            entry_time, exit_time))
    /\ UNCHANGED <<activityFields, reportFields>>
    /\ UNCHANGED <<dialogFields, generatorFields>>

\* report.validate_activities()
call_validate_activities ==
    /\ ret' = VerdictResult("validate_activities", validate_activities(activities))
    /\ UNCHANGED <<activityFields, reportFields>>
    /\ UNCHANGED <<dialogFields, generatorFields>>

\* report.complete_validate()
call_Report_complete_validate ==
    /\ ret' = VerdictResult("Report.complete_validate",
                            Report_complete_validate(responsible, student, date,
                                                     entry_time, exit_time, activities))
    /\ UNCHANGED <<activityFields, reportFields>>
    /\ UNCHANGED <<dialogFields, generatorFields>>

-----------------------------------------------------------------------------
(* Dates, dictionaries and JSON values *)

\* the int n as a JSON value: its decimal digits
JsonInt(n) == [t |-> "int", v |-> DecDigits(n)]

\* bool(x) for a str, None or int value
TruthyValue(x) == IF x.t = "str" THEN x.v # <<>>
                  ELSE IF x.t = "int" THEN x.v # <<"0">>
                  ELSE FALSE

\* dict.get(key, default)
Get(d, key, default) == IF key \in DOMAIN d THEN d[key] ELSE default

\* the format specification ":04d" for a year
Format04d(n) ==
    LET body == DecDigits(n)
    IN  [i \in 1..(4 - Len(body)) |-> "0"] \o body

IsLeapYear(y) == y % 4 = 0 /\ (y % 100 # 0 \/ y % 400 = 0)
DaysInMonth(y, m) == IF m = 2 THEN (IF IsLeapYear(y) THEN 29 ELSE 28)
                     ELSE IF m \in {4, 6, 9, 11} THEN 30
                     ELSE 31

\* date.isoformat() written without zero padding
isoformat_Unpadded(d) == DecDigits(d.y) \o <<"-">> \o DecDigits(d.m) \o <<"-">> \o DecDigits(d.d)

\* date.isoformat(): YYYY-MM-DD
isoformat(d) == Format04d(d.y) \o <<"-">> \o Format02d(d.m) \o <<"-">> \o Format02d(d.d)

\* date.fromisoformat(x) of Python 3.11 for a value x that is no week date
\* (no "W" in it): err is "" on success, else the exception raised
fromisoformat(x) ==
    IF x.t # "str" THEN [err |-> "TypeError", d |-> NoDate]
    ELSE LET s == x.v
             extended == /\ Len(s) = 10 /\ s[5] = "-" /\ s[8] = "-"
                         /\ \A i \in {1, 2, 3, 4, 6, 7, 9, 10} : IsDigit(s[i])
             basic == Len(s) = 8 /\ AllDigits(s)
             y == DecVal(SubSeq(s, 1, 4))
             m == IF extended THEN DecVal(SubSeq(s, 6, 7)) ELSE DecVal(SubSeq(s, 5, 6))
             day == IF extended THEN DecVal(SubSeq(s, 9, 10)) ELSE DecVal(SubSeq(s, 7, 8))
         IN  IF ~(extended \/ basic) THEN [err |-> "ValueError", d |-> NoDate]
             ELSE IF y < 1 \/ m < 1 \/ m > 12 \/ day < 1 \/ day > DaysInMonth(y, m)
             THEN [err |-> "ValueError", d |-> NoDate]
             ELSE [err |-> "", d |-> DateOf(y, m, day)]

-----------------------------------------------------------------------------
(* Report: statistics *)

\* activity.duration read on an Activity object: the object afterwards
DurationRead(a) ==
    [a EXCEPT !._duration = IF DurationNeedsCalc(a._duration)
                            THEN DurationOf(a.start_time, a.end_time)
                            ELSE a._duration]

\* activity.get_duration_in_minutes() on an Activity object: the object
\* afterwards, and the number returned
MinutesRead(a) ==
    [a EXCEPT !._duration = IF a._duration = <<>> \/ ~Contains(a._duration, ":")
                            THEN DurationOf(a.start_time, a.end_time)
                            ELSE a._duration]

ActivityMinutes(a) ==
    LET d == MinutesRead(a)._duration
    IN  IF ~Contains(d, ":") THEN 0 ELSE MinutesOfString(d)

RECURSIVE TotalMinutes(_)
\* sum(activity.get_duration_in_minutes() for activity in self.activities)
TotalMinutes(acts) ==
    IF acts = <<>> THEN 0 ELSE ActivityMinutes(Head(acts)) + TotalMinutes(Tail(acts))

\* calculate_total_activity_hours with the hours taken modulo 24
calculate_total_activity_hours_HoursOfDay(acts) ==
    LET total_minutes == TotalMinutes(acts)
    IN  Format02d((total_minutes \div 60) % 24) \o <<":">> \o Format02d(total_minutes % 60)

calculate_total_activity_hours(acts) ==
    LET total_minutes == TotalMinutes(acts)
    IN  Format02d(total_minutes \div 60) \o <<":">> \o Format02d(total_minutes % 60)

RECURSIVE get_total_images_count(_)
get_total_images_count(acts) ==
    IF acts = <<>> THEN 0 ELSE Len(Head(acts).images) + get_total_images_count(Tail(acts))

get_activities_with_images(acts) == SelectSeq(acts, LAMBDA a : Len(a.images) > 0)

\* _calculate_average_duration rounding the quotient up
_calculate_average_duration_RoundedUp(acts) ==
    IF acts = <<>> THEN <<"0", "0", ":", "0", "0">>
    ELSE LET avg_minutes == (TotalMinutes(acts) + Len(acts) - 1) \div Len(acts)
         IN  Format02d(avg_minutes \div 60) \o <<":">> \o Format02d(avg_minutes % 60)

_calculate_average_duration(acts) ==
    IF acts = <<>> THEN <<"0", "0", ":", "0", "0">>
    ELSE LET avg_minutes == TotalMinutes(acts) \div Len(acts)
         IN  Format02d(avg_minutes \div 60) \o <<":">> \o Format02d(avg_minutes % 60)

\* _get_longest_activity taking the last of the activities with the largest key
_get_longest_activity_LastOfTies(acts) ==
    IF acts = <<>> THEN None
    ELSE LET i == CHOOSE i \in 1..Len(acts) :
                    /\ \A j \in 1..Len(acts) : ActivityMinutes(acts[j]) <= ActivityMinutes(acts[i])
                    /\ \A j \in (i + 1)..Len(acts) : ActivityMinutes(acts[j]) < ActivityMinutes(acts[i])
         IN  Str(acts[i].title)

\* max(self.activities, key=...): the first activity with the largest key
_get_longest_activity(acts) ==
    IF acts = <<>> THEN None
    ELSE LET i == CHOOSE i \in 1..Len(acts) :
                    /\ \A j \in 1..Len(acts) : ActivityMinutes(acts[j]) <= ActivityMinutes(acts[i])
                    /\ \A j \in 1..(i - 1) : ActivityMinutes(acts[j]) < ActivityMinutes(acts[i])
         IN  Str(acts[i].title)

\* min(self.activities, key=...): the first activity with the smallest key
_get_shortest_activity(acts) ==
    IF acts = <<>> THEN None
    ELSE LET i == CHOOSE i \in 1..Len(acts) :
                    /\ \A j \in 1..Len(acts) : ActivityMinutes(acts[j]) >= ActivityMinutes(acts[i])
                    /\ \A j \in 1..(i - 1) : ActivityMinutes(acts[j]) > ActivityMinutes(acts[i])
         IN  Str(acts[i].title)

\* get_statistics() of a Report whose instance_hours property reads ih
get_statistics(ih, acts) ==
    [total_activities |-> Len(acts),
     total_activity_hours |-> calculate_total_activity_hours(acts),
     instance_hours |-> ih,
     total_images |-> get_total_images_count(acts),
     activities_with_images |-> Len(get_activities_with_images(acts)),
     average_activity_duration |-> _calculate_average_duration(acts),
     longest_activity |-> _get_longest_activity(acts),
     shortest_activity |-> _get_shortest_activity(acts)]

\* the value the property instance_hours reads
InstanceHoursRead(entry, exit, ih) ==
    IF InstanceHoursNeedsCalc(ih) THEN InstanceHoursOf(entry, exit) ELSE ih

\* the activities after get_duration_in_minutes has been called on each
ActivitiesMeasured(acts) == [i \in 1..Len(acts) |-> MinutesRead(acts[i])]

\* report.calculate_total_activity_hours()
call_calculate_total_activity_hours ==
    /\ ret' = [Result("calculate_total_activity_hours") EXCEPT
                 !.val = calculate_total_activity_hours(activities)]
    /\ activities' = ActivitiesMeasured(activities)
    /\ UNCHANGED <<activityFields, reportButActivities>>
    /\ UNCHANGED <<dialogFields, generatorFields>>

\* report.get_statistics()
call_get_statistics ==
    /\ _instance_hours' = InstanceHoursRead(entry_time, exit_time, _instance_hours)
    /\ activities' = ActivitiesMeasured(activities)
    /\ ret' = [Result("get_statistics") EXCEPT
                 !.stats = get_statistics(_instance_hours', activities)]
    /\ UNCHANGED <<activityFields, entry_time, exit_time, responsible, student, date, data>>
    /\ UNCHANGED <<dialogFields, generatorFields>>

-----------------------------------------------------------------------------
(* Report: search *)

\* ord(c) for a digit or the colon
Ord(c) == IF IsDigit(c) THEN 48 + DigitVal(c) ELSE 58

RECURSIVE StrLessEq(_, _)
\* a <= b on two str: the first differing character decides, a prefix is less
StrLessEq(a, b) ==
    IF a = <<>> THEN TRUE
    ELSE IF b = <<>> THEN FALSE
    ELSE IF Ord(a[1]) < Ord(b[1]) THEN TRUE
    ELSE IF Ord(a[1]) > Ord(b[1]) THEN FALSE
    ELSE StrLessEq(Tail(a), Tail(b))

\* the test "start_time <= activity.start_time <= end_time": the second
\* comparison is made only when the first holds; a comparison of a str with
\* a value of another type raises TypeError
InRange(start, x, end) ==
    IF ~isinstance_str(start) \/ ~isinstance_str(x)
    THEN [raised |-> TRUE, holds |-> FALSE]
    ELSE IF ~StrLessEq(start.v, x.v) THEN [raised |-> FALSE, holds |-> FALSE]
    ELSE IF ~isinstance_str(end) THEN [raised |-> TRUE, holds |-> FALSE]
    ELSE [raised |-> FALSE, holds |-> StrLessEq(x.v, end.v)]

\* find_activities_by_time_range leaving out an activity that starts at end_time
FindByTimeRange_EndExcluded(acts, start, end) ==
    [raised |-> \E i \in 1..Len(acts) : InRange(start, acts[i].start_time, end).raised,
     list |-> SelectSeq(acts, LAMBDA a : /\ InRange(start, a.start_time, end).holds
                                         /\ a.start_time # end)]

\* find_activities_by_time_range(start_time, end_time): whether it raises,
\* else the list it returns
FindByTimeRange(acts, start, end) ==
    [raised |-> \E i \in 1..Len(acts) : InRange(start, acts[i].start_time, end).raised,
     list |-> SelectSeq(acts, LAMBDA a : InRange(start, a.start_time, end).holds)]

\* report.find_activities_by_time_range(start, end)
find_activities_by_time_range(start, end) ==
    /\ \E out \in {FindByTimeRange(activities, start, end)} :
          ret' = IF out.raised
                 THEN [Result("find_activities_by_time_range") EXCEPT
                         !.ok = FALSE, !.msg = "TypeError", !.args = <<start, end>>]
                 ELSE [Result("find_activities_by_time_range") EXCEPT
                         !.list = out.list, !.args = <<start, end>>]
    /\ UNCHANGED <<activityFields, reportFields>>
    /\ UNCHANGED <<dialogFields, generatorFields>>

-----------------------------------------------------------------------------
(* Serialization *)

\* Activity.to_dict()
Activity_to_dict(a) ==
    [title |-> a.title,
     description |-> a.description,
     start_time |-> a.start_time,
     end_time |-> a.end_time,
     duration |-> DurationRead(a)._duration,
     images |-> a.images,
     number_images |-> Len(a.images)]

\* Activity.from_dict(data)
Activity_from_dict(act_data) ==
    MkActivity(Get(act_data, "title", <<>>),
               Get(act_data, "description", <<>>),
               Get(act_data, "start_time", DefaultTime),
               Get(act_data, "end_time", DefaultTime),
               IF Get(act_data, "images", <<>>) # <<>> THEN act_data["images"] ELSE <<>>)

\* the activities after to_dict has read the duration of each and
\* get_statistics its minutes
ActivitiesRead(acts) == [i \in 1..Len(acts) |-> MinutesRead(DurationRead(acts[i]))]

\* Report.to_dict() of a Report that has a date
Report_to_dict(resp, stu, d, entry, exit, ih, acts) ==
    [responsible |-> resp,
     student |-> stu,
     date |-> Str(isoformat(d)),
     entry_time |-> entry,
     exit_time |-> exit,
     instance_hours |-> InstanceHoursRead(entry, exit, ih),
     activities |-> [i \in 1..Len(acts) |-> Activity_to_dict(acts[i])],
     statistics |-> get_statistics(InstanceHoursRead(entry, exit, ih),
                                   [i \in 1..Len(acts) |-> DurationRead(acts[i])])]

\* Report.from_dict(data): the exception raised, or "" and the attributes of
\* the Report returned
Report_from_dict(d) ==
    LET given == Get(d, "date", None)
        parsed == IF TruthyValue(given) THEN fromisoformat(given)
                  ELSE [err |-> "", d |-> NoDate]
        report_date == IF parsed.err = "ValueError" THEN Today ELSE parsed.d
        acts == IF Get(d, "activities", <<>>) # <<>>
                THEN [i \in 1..Len(d["activities"]) |-> Activity_from_dict(d["activities"][i])]
                ELSE <<>>
        entry == Get(d, "entry_time", DefaultTime)
        exit == Get(d, "exit_time", DefaultTime)
    IN  [raised |-> IF parsed.err = "TypeError" THEN "TypeError" ELSE "",
         responsible |-> Get(d, "responsible", <<>>),
         student |-> Get(d, "student", <<>>),
         date |-> IF report_date # NoDate THEN report_date ELSE Today,
         entry_time |-> entry,
         exit_time |-> exit,
         activities |-> acts,
         _instance_hours |-> InitialInstanceHours(entry, exit)]

\* the program's Report becomes the Report that from_dict returned
Loaded(r) ==
    /\ responsible' = r.responsible
    /\ student' = r.student
    /\ date' = r.date
    /\ entry_time' = r.entry_time
    /\ exit_time' = r.exit_time
    /\ activities' = r.activities
    /\ _instance_hours' = r._instance_hours

reportAttributes == <<responsible, student, date, entry_time, exit_time,
                      activities, _instance_hours>>

-----------------------------------------------------------------------------
(* Specification of the two calculations on freshly built objects *)

InitCalc ==
    /\ NoDialog
    /\ NoGenerator
    /\ ret = Result("__init__")
    /\ \/ /\ \E s \in TimeInputs, e \in TimeInputs :
                NewActivity(SomeTitle, SomeDescription, s, e, <<>>)
          /\ NewReport(DefaultTime, DefaultTime)
       \/ /\ NewActivity(SomeTitle, SomeDescription, DefaultTime, DefaultTime, <<>>)
          /\ \E s \in TimeInputs, e \in TimeInputs : NewReport(s, e)

NextCalc ==
    \/ calculate_duration
    \/ get_duration_in_minutes
    \/ calculate_instance_hours
    \/ get_instance_hours_in_minutes

SpecCalc == InitCalc /\ [][NextCalc]_vars

(* Specification of an Activity whose times are assigned and read *)

InitActivityTime ==
    /\ NoDialog
    /\ NoGenerator
    /\ ret = Result("__init__")
    /\ \E s \in TimeInputs, e \in TimeInputs :
          NewActivity(SomeTitle, SomeDescription, s, e, <<>>)
    /\ NewReport(DefaultTime, DefaultTime)

NextActivityTime ==
    \/ \E t \in TimeInputs : set_start_time(t)
    \/ \E t \in TimeInputs : set_end_time(t)
    \/ calculate_duration
    \/ duration
    \/ get_duration_in_minutes

SpecActivityTime == InitActivityTime /\ [][NextActivityTime]_vars

(* Specification of a Report whose times are assigned and read *)

InitReportTime ==
    /\ NoDialog
    /\ NoGenerator
    /\ ret = Result("__init__")
    /\ NewActivity(SomeTitle, SomeDescription, DefaultTime, DefaultTime, <<>>)
    /\ \E s \in TimeInputs, e \in TimeInputs : NewReport(s, e)

NextReportTime ==
    \/ \E t \in TimeInputs : set_entry_time(t)
    \/ \E t \in TimeInputs : set_exit_time(t)
    \/ calculate_instance_hours
    \/ instance_hours
    \/ get_instance_hours_in_minutes

SpecReportTime == InitReportTime /\ [][NextReportTime]_vars

(* Specification of an Activity whose images are managed and validated *)

MaxInitImages == 1
MaxOrderLen == 3
MaxOrderIndex == 3

RECURSIVE SeqsUpTo(_, _)
\* the sequences over S of length at most n
SeqsUpTo(S, n) == IF n = 0 THEN {<<>>}
                  ELSE SeqsUpTo(S, n - 1) \cup [1..n -> S]

\* index lists that generate every reordering, and two that are not
\* permutations: the rotation, the exchange of the first two, a list one
\* short and a list repeating index 0
GeneratorOrders(n) ==
    {[i \in 1..n |-> i % n],
     [i \in 1..n |-> IF i = 1 /\ n > 1 THEN 1 ELSE IF i = 2 THEN 0 ELSE i - 1],
     [i \in 1..n |-> 0]}
    \cup (IF n > 0 THEN {[i \in 1..(n - 1) |-> i - 1]} ELSE {})

InitImages ==
    /\ NoDialog
    /\ NoGenerator
    /\ ret = Result("__init__")
    /\ \E imgs \in SeqsUpTo(Paths, MaxInitImages) :
          NewActivity(SomeTitle, SomeDescription, Clock(9, 0), Clock(11, 30), imgs)
    /\ NewReport(DefaultTime, DefaultTime)

NextImages ==
    \/ \E p \in Paths : add_image(p)
    \/ \E i \in -1..MAX_IMAGES : delete_image(i)
    \/ \E p \in Paths : delete_image_by_path(p)
    \/ \E o \in GeneratorOrders(Len(images)) : reorganize_images(o)
    \/ clean_images
    \/ call_validate_images
    \/ call_complete_validate

SpecImages == InitImages /\ [][NextImages]_vars

(* Specification of the reordering of an Activity's images *)

ReorderPaths == {Path_a_jpg, Path_b_PNG}
Orders == SeqsUpTo(-1..MaxOrderIndex, MaxOrderLen)

InitReorder ==
    /\ NoDialog
    /\ NoGenerator
    /\ ret = Result("__init__")
    /\ \E imgs \in SeqsUpTo(ReorderPaths, MaxOrderLen) :
          NewActivity(SomeTitle, SomeDescription, Clock(9, 0), Clock(11, 30), imgs)
    /\ NewReport(DefaultTime, DefaultTime)

NextReorder == \E o \in Orders : reorganize_images(o)

SpecReorder == InitReorder /\ [][NextReorder]_vars

(* Specification of the validation of an Activity built from any fields *)

ValidateTitles == {<<>>, <<" ">>, SomeTitle}
ValidateDescriptions == {<<>>, SomeDescription}
ValidateStartTimes == {Clock(9, 0), Str(<<"2", "4", ":", "0", "0">>), Str(<<>>), None}
ValidateEndTimes == {Clock(11, 30), Str(<<"1", "2", ":", "6", "0">>), Str(<<"9", ":", "5">>)}
\* no image; an absent file; a file with a wrong extension in second place;
\* two good files; six good files
ValidateImageLists == {<<>>, <<Path_d_png>>, <<Path_a_jpg, Path_e_gif>>,
                       <<Path_a_jpg, Path_b_PNG>>,
                       [i \in 1..(MAX_IMAGES + 1) |-> Path_a_jpg]}

InitValidate ==
    /\ NoDialog
    /\ NoGenerator
    /\ ret = Result("__init__")
    /\ \E ti \in ValidateTitles, de \in ValidateDescriptions,
          st \in ValidateStartTimes, en \in ValidateEndTimes,
          imgs \in ValidateImageLists :
          NewActivity(ti, de, st, en, imgs)
    /\ NewReport(DefaultTime, DefaultTime)

NextValidate ==
    \/ call_validate_required_fields
    \/ call_validate_hours
    \/ call_validate_images
    \/ call_complete_validate

SpecValidate == InitValidate /\ [][NextValidate]_vars

(* Specification of a Report whose list of activities is changed through
   its methods *)

\* three activities that validate: no image, an overnight one with an image,
\* one with a start time that is not zero-padded and two images
ActA == MkActivity(<<"A">>, SomeDescription, Clock(9, 0), Clock(11, 30), <<>>)
ActB == MkActivity(<<"B">>, SomeDescription, Clock(23, 0), Clock(1, 0), <<Path_a_jpg>>)
ActC == MkActivity(<<"C">>, SomeDescription, Str(<<"9", ":", "5">>), Clock(11, 0),
                   <<Path_a_jpg, Path_b_PNG>>)
\* three that do not: no title and start time 24:00; start time 24:00 and an
\* absent image; a second image with extension .gif
ActNoTitle == MkActivity(<<>>, SomeDescription, Str(<<"2", "4", ":", "0", "0">>),
                         Clock(11, 30), <<>>)
ActBadTime == MkActivity(<<"E">>, SomeDescription, Str(<<"2", "4", ":", "0", "0">>),
                         Clock(11, 30), <<Path_d_png>>)
ActBadImage == MkActivity(<<"F">>, SomeDescription, Clock(9, 0), Clock(11, 30),
                          <<Path_a_jpg, Path_e_gif>>)

ValidActivities == {ActA, ActB, ActC}
InvalidActivities == {ActNoTitle, ActBadTime, ActBadImage}
\* NoActivity is an argument that is not an Activity
ActivityInputs == ValidActivities \cup InvalidActivities \cup {NoActivity}
\* the largest index handed to a method of the list
MaxActivityIndex == 3
ActivityIndexes == -1..MaxActivityIndex
\* the activities handed to edit_activity: a valid one, two invalid ones and
\* a value that is not an Activity
EditInputs == {ActB, ActNoTitle, ActBadImage, NoActivity}

SomeResponsible == <<"R">>
SomeStudent == <<"S">>

InitReport ==
    /\ NoDialog
    /\ NoGenerator
    /\ ret = Result("__init__")
    /\ NewActivity(SomeTitle, SomeDescription, DefaultTime, DefaultTime, <<>>)
    /\ NewReportWith(SomeResponsible, SomeStudent, NoDate, Clock(9, 0), Clock(11, 30), <<>>)

NextReport ==
    \/ \E a \in ActivityInputs : add_activity(a)
    \/ \E i \in ActivityIndexes, a \in EditInputs : edit_activity(i, a)
    \/ \E i \in ActivityIndexes : remove_activity(i)
    \/ \E i \in ActivityIndexes, j \in ActivityIndexes : move_activity(i, j)
    \/ clear_activities
    \/ call_validate_activities

SpecReport == InitReport /\ [][NextReport]_vars

(* Specification of the validation of a Report built from any fields and
   any list of activities *)

ReportResponsibles == {<<>>, <<" ">>, SomeResponsible}
ReportStudents == {<<>>, SomeStudent}
\* a date given to the constructor, no date given, and None assigned later
SomeDate == DateOf(2024, 2, 29)
ReportDates == {SomeDate, NoDate}
ReportEntryTimes == {Clock(9, 0), Str(<<"2", "4", ":", "0", "0">>), Str(<<>>),
                     Str(<<"9", ":", "5">>)}
ReportExitTimes == {Clock(11, 30), Str(<<"1", "2", ":", "6", "0">>), None}
\* no activity; one or two valid ones; a valid one before an invalid one; two
\* invalid ones
ReportActivityLists == {<<>>, <<ActA>>, <<ActA, ActB>>, <<ActA, ActBadImage>>,
                        <<ActBadTime, ActNoTitle>>}

InitReportValidate ==
    /\ NoDialog
    /\ NoGenerator
    /\ ret = Result("__init__")
    /\ NewActivity(SomeTitle, SomeDescription, DefaultTime, DefaultTime, <<>>)
    /\ \E resp \in ReportResponsibles, stu \in ReportStudents, d \in ReportDates,
          entry \in ReportEntryTimes, exit \in ReportExitTimes,
          acts \in ReportActivityLists :
          NewReportWith(resp, stu, d, entry, exit, acts)

NextReportValidate ==
    \/ \E d \in ReportDates : set_date(d)
    \/ call_Report_validate_required_fields
    \/ call_Report_validate_times
    \/ call_validate_activities
    \/ call_Report_complete_validate

SpecReportValidate == InitReportValidate /\ [][NextReportValidate]_vars

(* Specification of a Report that is saved, loaded and copied *)

NotADate == <<"n", "o", "t", "-", "a", "-", "d", "a", "t", "e">>

\* values of the key "date": "", null, "not-a-date", "2023-02-29", "2024-2-9",
\* 0, 20240101, and the dates "2024-02-29" and "20240101"
MalformedDateValues ==
    {Str(<<>>), None, Str(NotADate),
     Str(<<"2", "0", "2", "3", "-", "0", "2", "-", "2", "9">>),
     Str(<<"2", "0", "2", "4", "-", "2", "-", "9">>),
     JsonInt(0), JsonInt(20240101)}
IsoDateValues ==
    {Str(<<"2", "0", "2", "4", "-", "0", "2", "-", "2", "9">>),
     Str(<<"2", "0", "2", "4", "0", "1", "0", "1">>)}
DateValues == MalformedDateValues \cup IsoDateValues

\* a dictionary with every key, whose second activity has a title only and
\* whose third has no key at all
FullDict ==
    [responsible |-> SomeResponsible,
     student |-> SomeStudent,
     date |-> Str(<<"2", "0", "2", "4", "-", "0", "2", "-", "2", "9">>),
     entry_time |-> Clock(9, 0),
     exit_time |-> Clock(11, 30),
     activities |-> <<Activity_to_dict(ActB), [title |-> <<"G">>], EmptyDict>>]

\* {}, dictionaries without the key "activities" or with an empty list, with
\* every value of "date", and the full one
DictInputs ==
    {EmptyDict, FullDict, [student |-> SomeStudent, entry_time |-> None]}
    \cup {[responsible |-> SomeResponsible, date |-> dv] : dv \in DateValues}
    \cup {[date |-> dv, activities |-> <<>>] : dv \in {Str(NotADate), JsonInt(20240101)}}

JsonPath(c) == <<c, ".", "j", "s", "o", "n">>

\* a.json: the full dictionary.  b.json: "date" is "not-a-date".
\* c.json: "date" is the number 20240101.  d.json: not JSON.  e.json: absent.
JsonFiles ==
    [p \in {JsonPath(c) : c \in {"a", "b", "c", "d", "e"}} |->
        IF p = JsonPath("a") THEN [exists |-> TRUE, valid |-> TRUE, doc |-> FullDict]
        ELSE IF p = JsonPath("b")
        THEN [exists |-> TRUE, valid |-> TRUE,
              doc |-> [responsible |-> SomeResponsible, date |-> Str(NotADate)]]
        ELSE IF p = JsonPath("c")
        THEN [exists |-> TRUE, valid |-> TRUE,
              doc |-> [responsible |-> SomeResponsible, date |-> JsonInt(20240101)]]
        ELSE IF p = JsonPath("d") THEN [exists |-> TRUE, valid |-> FALSE, doc |-> EmptyDict]
        ELSE [exists |-> FALSE, valid |-> FALSE, doc |-> EmptyDict]]

\* data = report.to_dict(); without a date, date.isoformat() raises
to_dict ==
    /\ IF date = NoDate
       THEN /\ ret' = [Result("to_dict") EXCEPT !.ok = FALSE, !.msg = "AttributeError"]
            /\ UNCHANGED <<reportAttributes, data>>
       ELSE /\ data' = Report_to_dict(responsible, student, date, entry_time, exit_time,
                                      _instance_hours, activities)
            /\ _instance_hours' = InstanceHoursRead(entry_time, exit_time, _instance_hours)
            /\ activities' = ActivitiesRead(activities)
            /\ ret' = Result("to_dict")
            /\ UNCHANGED <<responsible, student, date, entry_time, exit_time>>
    /\ UNCHANGED activityFields
    /\ UNCHANGED <<dialogFields, generatorFields>>

\* report = Report.from_dict(d)
from_dict(d) ==
    /\ data' = d
    /\ \E r \in {Report_from_dict(d)} :
          IF r.raised # ""
          THEN /\ ret' = [Result("from_dict") EXCEPT !.ok = FALSE, !.msg = r.raised]
               /\ UNCHANGED reportAttributes
          ELSE /\ ret' = Result("from_dict")
               /\ Loaded(r)
    /\ UNCHANGED activityFields
    /\ UNCHANGED <<dialogFields, generatorFields>>

\* report = report.copy()
copy ==
    /\ IF date = NoDate
       THEN /\ ret' = [Result("copy") EXCEPT !.ok = FALSE, !.msg = "AttributeError"]
            /\ UNCHANGED <<reportAttributes, data>>
       ELSE \E d \in {Report_to_dict(responsible, student, date, entry_time, exit_time,
                                     _instance_hours, activities)} :
               /\ data' = d
               /\ \E r \in {Report_from_dict(d)} :
                     IF r.raised # ""
                     THEN /\ ret' = [Result("copy") EXCEPT !.ok = FALSE, !.msg = r.raised]
                          /\ UNCHANGED reportAttributes
                     ELSE /\ ret' = Result("copy")
                          /\ Loaded(r)
    /\ UNCHANGED activityFields
    /\ UNCHANGED <<dialogFields, generatorFields>>

\* report, message = Report.from_json(filepath); a file is absent, holds
\* text that is not JSON, or holds the JSON document doc
from_json(filepath) ==
    /\ LET file == JsonFiles[filepath]
       IN  IF ~file.exists
           THEN /\ ret' = [Result("from_json") EXCEPT !.ok = FALSE, !.msg = "File not found",
                                                      !.path = filepath]
                /\ UNCHANGED <<reportAttributes, data>>
           ELSE IF ~file.valid
           THEN /\ ret' = [Result("from_json") EXCEPT !.ok = FALSE,
                                                      !.msg = "Invalid JSON format",
                                                      !.path = filepath]
                /\ UNCHANGED <<reportAttributes, data>>
           ELSE /\ data' = file.doc
                /\ \E r \in {Report_from_dict(file.doc)} :
                      IF r.raised # ""
                      THEN /\ ret' = [Result("from_json") EXCEPT
                                        !.ok = FALSE,
                                        !.msg = "Error loading report: {str(e)}",
                                        !.path = filepath]
                           /\ UNCHANGED reportAttributes
                      ELSE /\ ret' = [Result("from_json") EXCEPT
                                        !.msg = "Report loaded from {filepath}",
                                        !.path = filepath]
                           /\ Loaded(r)
    /\ UNCHANGED activityFields
    /\ UNCHANGED <<dialogFields, generatorFields>>

SerialResponsibles == {<<>>, SomeResponsible}
SerialDates == {SomeDate, DateOf(2023, 12, 31), NoDate}
SerialEntryTimes == {Clock(9, 0), Str(<<"2", "4", ":", "0", "0">>), Str(<<>>), None}
SerialExitTimes == {Clock(11, 30), Clock(1, 0)}
SerialActivityLists == {<<>>, <<ActA>>, <<ActB, ActBadImage>>, <<ActNoTitle, ActC, ActA>>}

InitSerial ==
    /\ NoDialog
    /\ NoGenerator
    /\ ret = Result("__init__")
    /\ NewActivity(SomeTitle, SomeDescription, DefaultTime, DefaultTime, <<>>)
    /\ \E resp \in SerialResponsibles, d \in SerialDates,
          entry \in SerialEntryTimes, exit \in SerialExitTimes,
          acts \in SerialActivityLists :
          NewReportWith(resp, SomeStudent, d, entry, exit, acts)

NextSerial ==
    \/ to_dict
    \/ \E d \in DictInputs \cup {data} : from_dict(d)
    \/ copy
    \/ \E f \in DOMAIN JsonFiles : from_json(f)

SpecSerial == InitSerial /\ [][NextSerial]_vars

(* Specification of the calculations on times of any kind *)

\* "09:00", "23:59", "9:5", "", None, 900, 0, "24:00", "12:60", "ab:cd", "0900"
AnyTimes ==
    {Clock(9, 0), Clock(23, 59), Str(<<"9", ":", "5">>), Str(<<>>), None,
     JsonInt(900), JsonInt(0), Str(<<"2", "4", ":", "0", "0">>),
     Str(<<"1", "2", ":", "6", "0">>), Str(<<"a", "b", ":", "c", "d">>),
     Str(<<"0", "9", "0", "0">>)}

InitAnyTimes ==
    /\ NoDialog
    /\ NoGenerator
    /\ ret = Result("__init__")
    /\ \/ /\ \E s \in AnyTimes, e \in AnyTimes :
                NewActivity(SomeTitle, SomeDescription, s, e, <<>>)
          /\ NewReport(DefaultTime, DefaultTime)
       \/ /\ NewActivity(SomeTitle, SomeDescription, DefaultTime, DefaultTime, <<>>)
          /\ \E s \in AnyTimes, e \in AnyTimes : NewReport(s, e)

NextAnyTimes ==
    \/ \E t \in {Clock(9, 0), JsonInt(900), None} : set_start_time(t)
    \/ \E t \in {Clock(9, 0), JsonInt(900), None} : set_entry_time(t)
    \/ calculate_duration
    \/ get_duration_in_minutes
    \/ calculate_instance_hours
    \/ get_instance_hours_in_minutes

SpecAnyTimes == InitAnyTimes /\ [][NextAnyTimes]_vars

(* Specification of the statistics of a Report built with any activities *)

MaxStatActivities == 3

\* activities of 02:30, 01:30, 02:30 over midnight, 00:01 and 24:00, one whose
\* end time does not parse and one without a start time
StatActivities ==
    {MkActivity(<<"A">>, SomeDescription, Clock(9, 0), Clock(11, 30), <<>>),
     MkActivity(<<"B">>, SomeDescription, Clock(10, 0), Clock(11, 30), <<Path_a_jpg>>),
     MkActivity(<<"C">>, SomeDescription, Clock(23, 0), Clock(1, 30), <<>>),
     MkActivity(<<"D">>, SomeDescription, Clock(9, 0), Clock(9, 1), <<>>),
     MkActivity(<<"E">>, SomeDescription, Clock(9, 0), Clock(9, 0), <<>>),
     MkActivity(<<"F">>, SomeDescription, Clock(9, 0), Str(<<"2", "4", ":", "0", "0">>), <<>>),
     MkActivity(<<"G">>, SomeDescription, None, Clock(9, 0), <<>>)}

InitStatistics ==
    /\ NoDialog
    /\ NoGenerator
    /\ ret = Result("__init__")
    /\ NewActivity(SomeTitle, SomeDescription, DefaultTime, DefaultTime, <<>>)
    /\ \E acts \in SeqsUpTo(StatActivities, MaxStatActivities) :
          NewReportWith(SomeResponsible, SomeStudent, NoDate, Clock(9, 0), Clock(11, 30), acts)

NextStatistics ==
    \/ call_calculate_total_activity_hours
    \/ call_get_statistics

SpecStatistics == InitStatistics /\ [][NextStatistics]_vars

(* Specification of the search by time range in a Report built with any
   activities *)

MaxFindActivities == 3

\* activities starting at 00:00, 09:00, 10:00, 23:59, at "9:30" and with None
\* as start time
FindActivities ==
    {MkActivity(<<"A">>, SomeDescription, Clock(0, 0), Clock(11, 30), <<>>),
     MkActivity(<<"B">>, SomeDescription, Clock(9, 0), Clock(11, 30), <<>>),
     MkActivity(<<"C">>, SomeDescription, Clock(10, 0), Clock(11, 30), <<>>),
     MkActivity(<<"D">>, SomeDescription, Clock(23, 59), Clock(1, 0), <<>>),
     MkActivity(<<"E">>, SomeDescription, Str(<<"9", ":", "3", "0">>), Clock(11, 30), <<>>),
     MkActivity(<<"F">>, SomeDescription, None, Clock(11, 30), <<>>)}

RangeTimes == {Clock(0, 0), Clock(9, 0), Clock(10, 0), Clock(23, 59)}

InitFind ==
    /\ NoDialog
    /\ NoGenerator
    /\ ret = Result("__init__")
    /\ NewActivity(SomeTitle, SomeDescription, DefaultTime, DefaultTime, <<>>)
    /\ \E acts \in SeqsUpTo(FindActivities, MaxFindActivities) :
          NewReportWith(SomeResponsible, SomeStudent, NoDate, Clock(9, 0), Clock(11, 30), acts)

NextFind == \E start \in RangeTimes, end \in RangeTimes :
               find_activities_by_time_range(start, end)

SpecFind == InitFind /\ [][NextFind]_vars

-----------------------------------------------------------------------------
(* Claims about the duration rule *)

\* a zero-padded HH:MM string with hour 00..23 and minute 00..59
IsPaddedTime(x) ==
    /\ x.t = "str"
    /\ Len(x.v) = 5
    /\ x.v[3] = ":"
    /\ \A i \in {1, 2, 4, 5} : IsDigit(x.v[i])
    /\ 10 * DigitVal(x.v[1]) + DigitVal(x.v[2]) <= 23
    /\ 10 * DigitVal(x.v[4]) + DigitVal(x.v[5]) <= 59

\* minutes since midnight of a zero-padded HH:MM string
ClockMinutes(x) ==
    (10 * DigitVal(x.v[1]) + DigitVal(x.v[2])) * 60
    + 10 * DigitVal(x.v[4]) + DigitVal(x.v[5])

\* n minutes written as zero-padded HH:MM, for n below 100 hours
HHMM(n) == <<DigitChars[((n \div 60) \div 10) + 1], DigitChars[((n \div 60) % 10) + 1], ":",
             DigitChars[((n % 60) \div 10) + 1], DigitChars[((n % 60) % 10) + 1]>>

\* C1: when calculate_duration has run on well-formed times with end later
\* than start, the duration is end minus start in minutes written HH:MM.
C1_DurationIsDifference ==
    (/\ ret.op = "calculate_duration"
     /\ IsPaddedTime(start_time) /\ IsPaddedTime(end_time)
     /\ ClockMinutes(end_time) > ClockMinutes(start_time))
    => /\ ret.val = HHMM(ClockMinutes(end_time) - ClockMinutes(start_time))
       /\ _duration = ret.val

C1_Witness ==
    /\ ret.op = "calculate_duration"
    /\ start_time = Clock(9, 0)
    /\ end_time = Clock(11, 30)
    /\ ret.val = <<"0", "2", ":", "3", "0">>

\* C2: when end is equal to or earlier than start, the duration of an
\* Activity and the instance hours of a Report are end + 24h - start in
\* minutes, so never negative.
C2_OvernightWrap ==
    /\ (/\ ret.op = "calculate_duration"
        /\ IsPaddedTime(start_time) /\ IsPaddedTime(end_time)
        /\ ClockMinutes(end_time) <= ClockMinutes(start_time))
       => /\ ret.val = HHMM(ClockMinutes(end_time) + 24 * 60 - ClockMinutes(start_time))
          /\ _duration = ret.val
    /\ (/\ ret.op = "calculate_instance_hours"
        /\ IsPaddedTime(entry_time) /\ IsPaddedTime(exit_time)
        /\ ClockMinutes(exit_time) <= ClockMinutes(entry_time))
       => /\ ret.val = HHMM(ClockMinutes(exit_time) + 24 * 60 - ClockMinutes(entry_time))
          /\ _instance_hours = ret.val

C2_Witness ==
    /\ ret.op = "calculate_instance_hours"
    /\ entry_time = Clock(23, 0)
    /\ exit_time = Clock(1, 0)
    /\ ret.val = <<"0", "2", ":", "0", "0">>

\* C3: every read of Activity.duration and of get_duration_in_minutes gives
\* the value computed from the start_time and end_time current at the read.
C3_DurationFollowsInputs ==
    /\ ret.op = "duration" => ret.val = DurationOf(start_time, end_time)
    /\ ret.op = "get_duration_in_minutes"
          => ret.num = MinutesOfString(DurationOf(start_time, end_time))

\* C4: every read of Report.instance_hours and of
\* get_instance_hours_in_minutes gives the value derived from the entry_time
\* and exit_time current at the read.
C4_InstanceHoursFollowInputs ==
    /\ ret.op = "instance_hours" => ret.val = InstanceHoursOf(entry_time, exit_time)
    /\ ret.op = "get_instance_hours_in_minutes"
          => ret.num = MinutesOfString(InstanceHoursOf(entry_time, exit_time))

-----------------------------------------------------------------------------
(* Claims about the images of an Activity *)

LimitMessage == "Limit of {MAX_IMAGES} images reached"
NotExistMessage == "File does not exist"
InvalidFormatMessage == "Invalid format. Use: .jpg, .jpeg, .png"
TooLargeMessage == "Image too large ({size_mb}MB). Maximum {MAX_SIZE_IMAGE_MB}MB"
AddedMessage == "Image added ({len}/{MAX_IMAGES})"

\* the paths of the file system above whose extension is .jpg, .jpeg or
\* .png in any letter case
PathsWithAllowedExtension == {Path_a_jpg, Path_b_PNG, Path_d_c_jpeg, Path_d_png}

TenMegabytes == 10485760

\* C5: the image list never holds more than 5 entries, and a successful
\* add_image appends the given path as the last entry (length plus one).
C5_AtMostFiveImages ==
    /\ [](Len(images) <= 5)
    /\ [][(ret'.op = "add_image" /\ ret'.ok)
            => /\ Len(images') = Len(images) + 1
               /\ images'[Len(images')] = ret'.path
               /\ SubSeq(images', 1, Len(images)) = images]_vars

C5_Witness ==
    /\ ret.op = "add_image"
    /\ ret.ok
    /\ Len(images) = 5
    /\ images[5] = ret.path

\* C6: add_image on a list of 5 images fails with the limit message whatever
\* the path, and every failed add_image leaves the list as it was.
C6_FailedAddChangesNothing ==
    [][ret'.op = "add_image"
         => /\ Len(images) = 5
                => (~ret'.ok /\ ret'.msg = LimitMessage /\ images' = images)
            /\ ~ret'.ok => images' = images]_vars

C6_Witness ==
    /\ ret.op = "add_image"
    /\ ~ret.ok
    /\ ret.msg = LimitMessage
    /\ Len(images) = 5
    /\ ret.path = Path_a_jpg

\* C7: add_image reports the first that applies of: limit reached, file
\* absent, extension not allowed, file over 10 MB; it succeeds exactly when
\* none applies.
C7_AddImageFailureOrder ==
    [][ret'.op = "add_image"
         => LET p == ret'.path
                limit == Len(images) >= 5
                absent == ~Files[p].exists
                badExt == p \notin PathsWithAllowedExtension
                tooBig == Files[p].size > TenMegabytes
            IN  /\ ret'.ok = ~(limit \/ absent \/ badExt \/ tooBig)
                /\ ret'.msg = IF limit THEN LimitMessage
                              ELSE IF absent THEN NotExistMessage
                              ELSE IF badExt THEN InvalidFormatMessage
                              ELSE IF tooBig THEN TooLargeMessage
                              ELSE AddedMessage]_vars

C7_Witness ==
    /\ ret.op = "add_image"
    /\ ret.path = Path_f_txt
    /\ ret.msg = NotExistMessage
    /\ Len(images) = 4

\* the list o holds each of 0..n-1 exactly once
IsPermutation(o, n) ==
    /\ Len(o) = n
    /\ \A k \in 0..(n - 1) : Cardinality({i \in 1..n : o[i] = k}) = 1

\* C8: reorganize_images with a list that is not a permutation of 0..N-1
\* fails and leaves the images in their original order.
C8_BadOrderChangesNothing ==
    [][(ret'.op = "reorganize_images" /\ ~IsPermutation(ret'.order, Len(images)))
         => (~ret'.ok /\ images' = images)]_vars

C8_Witness ==
    /\ ret.op = "reorganize_images"
    /\ ret.order = <<0, 0, 1>>
    /\ ~ret.ok
    /\ images = <<Path_a_jpg, Path_b_PNG, Path_a_jpg>>

\* C9: reorganize_images with a permutation p of 0..N-1 succeeds, and then
\* images[i] is the old images[p[i]]; length and multiset of paths are kept.
C9_PermutationIsApplied ==
    [][(ret'.op = "reorganize_images" /\ IsPermutation(ret'.order, Len(images)))
         => /\ ret'.ok
            /\ Len(images') = Len(images)
            /\ \A i \in 1..Len(images) : images'[i] = images[ret'.order[i] + 1]
            /\ \A q \in Paths : CountOf(images', q) = CountOf(images, q)]_vars

C9_Witness ==
    /\ ret.op = "reorganize_images"
    /\ ret.ok
    /\ ret.order = <<1, 2, 0>>
    /\ images = <<Path_b_PNG, Path_a_jpg, Path_a_jpg>>

\* C10: an Activity passes complete_validate only if every image exists, has
\* an allowed extension and is at most 10 MB.
C10_ValidImagesWithinSize ==
    (ret.op = "complete_validate" /\ ret.ok)
    => \A i \in 1..Len(images) :
          /\ Files[images[i]].exists
          /\ images[i] \in PathsWithAllowedExtension
          /\ Files[images[i]].size <= TenMegabytes

-----------------------------------------------------------------------------
(* Claims about the validation of an Activity *)

\* a string with nothing but white space in it
IsBlank(s) == \A i \in 1..Len(s) : s[i] \in {" ", "\t", "\n", "\r"}

\* C11: complete_validate runs required fields, then hours, then images, and
\* gives the message of the first that fails; with an empty title and a
\* malformed time it reports the title, with a malformed time and a missing
\* image the time; it succeeds exactly when the three succeed.
C11_FirstFailingCheck ==
    ret.op = "complete_validate"
    => LET fields == validate_required_fields(title, description, start_time, end_time)
           hours == validate_hours(start_time, end_time)
           imgs == validate_images(images)
       IN  /\ ret.ok = (fields.ok /\ hours.ok /\ imgs.ok)
           /\ ~fields.ok => ret.msg = fields.msg
           /\ (fields.ok /\ ~hours.ok) => ret.msg = hours.msg
           /\ (fields.ok /\ hours.ok /\ ~imgs.ok)
                 => (ret.msg = imgs.msg /\ ret.num = imgs.num)
           /\ IsBlank(title) => ret.msg = "Title is required"
           /\ (~IsBlank(title) /\ ~IsBlank(description)
               /\ start_time = Str(<<"2", "4", ":", "0", "0">>))
                 => ret.msg = "Invalid start time: '{start_time}'. Use HH:MM format (00:00 - 23:59)"

C11_Witness ==
    /\ ret.op = "complete_validate"
    /\ title = SomeTitle /\ description = SomeDescription
    /\ start_time = Str(<<"2", "4", ":", "0", "0">>)
    /\ images = <<Path_d_png>>
    /\ ~ret.ok
    /\ ret.msg = "Invalid start time: '{start_time}'. Use HH:MM format (00:00 - 23:59)"

-----------------------------------------------------------------------------
(* Claims about the list of activities of a Report *)

\* C12: add_activity given an Activity that fails its own complete_validate
\* fails with that message behind a prefix and leaves the list unchanged;
\* given a valid Activity it appends it as last element, length plus one.
C12_AddValidatesThenAppends ==
    [][(ret'.op = "add_activity" /\ isinstance_Activity(ret'.act))
         => LET v == ActivityVerdict(ret'.act)
            IN  /\ ~v.ok => /\ ~ret'.ok
                            /\ ret'.msg = "Invalid activity: " \o v.msg
                            /\ activities' = activities
                /\ v.ok => /\ ret'.ok
                           /\ Len(activities') = Len(activities) + 1
                           /\ activities'[Len(activities')] = ret'.act
                           /\ SubSeq(activities', 1, Len(activities)) = activities]_vars

C12_Witness ==
    /\ ret.op = "add_activity"
    /\ ret.act = ActBadTime
    /\ ~ret.ok
    /\ ret.msg = "Invalid activity: Invalid start time: '{start_time}'. Use HH:MM format (00:00 - 23:59)"
    /\ activities = <<ActA, ActB>>

\* C13: in a Report created empty and changed through add, edit, remove, move
\* and clear, every activity of the list passes complete_validate, so that
\* validate_activities fails only on an empty list.
C13_ListHoldsValidActivities ==
    /\ \A i \in 1..Len(activities) :
          isinstance_Activity(activities[i]) /\ ActivityVerdict(activities[i]).ok
    /\ (ret.op = "validate_activities" /\ ~ret.ok)
          => (activities = <<>> /\ ret.msg = "Report must contain at least one activity")

C13_Witness ==
    /\ ret.op = "validate_activities"
    /\ ret.ok
    /\ activities = <<ActC, ActA, ActB>>

\* C14: edit_activity fails with "Invalid index" when the index is outside
\* 0..len-1, whatever the activity; fails with the prefixed message when the
\* activity does not validate; changes nothing in both cases; on success only
\* the element at the index changes, to the new activity.
C14_EditReplacesOneElement ==
    [][ret'.op = "edit_activity"
         => LET i == ret'.idx
                a == ret'.act
            IN  IF ~(0 <= i /\ i <= Len(activities) - 1)
                THEN ~ret'.ok /\ ret'.msg = "Invalid index" /\ activities' = activities
                ELSE IF isinstance_Activity(a) /\ ~ActivityVerdict(a).ok
                THEN /\ ~ret'.ok
                     /\ ret'.msg = "Invalid activity: " \o ActivityVerdict(a).msg
                     /\ activities' = activities
                ELSE IF isinstance_Activity(a)
                THEN /\ ret'.ok
                     /\ Len(activities') = Len(activities)
                     /\ activities'[i + 1] = a
                     /\ \A k \in 1..Len(activities) :
                           k # i + 1 => activities'[k] = activities[k]
                ELSE ~ret'.ok /\ activities' = activities]_vars

C14_Witness ==
    /\ ret.op = "edit_activity"
    /\ ret.idx = 3
    /\ ret.act = ActNoTitle
    /\ ret.msg = "Invalid index"
    /\ Len(activities) = 3

\* the list without its element at 0-based position i
Without(list, i) == [k \in 1..(Len(list) - 1) |-> IF k <= i THEN list[k] ELSE list[k + 1]]

\* C15: move_activity(from, to) with both indices in 0..len-1 puts the moved
\* activity at index to and keeps the order of the others; with an index out
\* of range it fails and changes nothing.  remove_activity removes exactly
\* the element at an in-range index and fails without change otherwise.
C15_MoveShiftsRemoveDeletes ==
    [][/\ ret'.op = "move_activity"
          => LET from == ret'.idx
                 to == ret'.to
                 n == Len(activities)
             IN  IF 0 <= from /\ from < n /\ 0 <= to /\ to < n
                 THEN /\ ret'.ok
                      /\ Len(activities') = n
                      /\ activities'[to + 1] = activities[from + 1]
                      /\ Without(activities', to) = Without(activities, from)
                 ELSE ~ret'.ok /\ activities' = activities
       /\ ret'.op = "remove_activity"
          => LET i == ret'.idx
             IN  IF 0 <= i /\ i < Len(activities)
                 THEN ret'.ok /\ activities' = Without(activities, i)
                 ELSE ~ret'.ok /\ activities' = activities]_vars

C15_Witness ==
    /\ ret.op = "move_activity"
    /\ ret.ok
    /\ ret.idx = 0
    /\ ret.to = 2
    /\ activities = <<ActB, ActC, ActA>>

-----------------------------------------------------------------------------
(* Claims about the validation of a Report *)

\* a string of one or two digits, a colon and one or two digits, with the
\* hour at most 23 and the minute at most 59
IsTimeInRange(x) ==
    /\ x.t = "str"
    /\ \E c \in 2..3 :
          /\ Len(x.v) \in (c + 1)..(c + 2)
          /\ x.v[c] = ":"
          /\ \A i \in (1..Len(x.v)) \ {c} : IsDigit(x.v[i])
          /\ DecVal(SubSeq(x.v, 1, c - 1)) <= 23
          /\ DecVal(SubSeq(x.v, c + 1, Len(x.v))) <= 59

\* C16: Report.complete_validate succeeds exactly when responsible and
\* student are not blank, date, entry_time and exit_time are present, entry
\* and exit time are hour:minute strings in range, the list of activities is
\* not empty and every Activity in it passes its own complete_validate.
C16_ValidReport ==
    ret.op = "Report.complete_validate"
    => ret.ok = (/\ ~IsBlank(responsible)
                 /\ ~IsBlank(student)
                 /\ date # NoDate
                 /\ entry_time # None /\ entry_time # Str(<<>>)
                 /\ exit_time # None /\ exit_time # Str(<<>>)
                 /\ IsTimeInRange(entry_time)
                 /\ IsTimeInRange(exit_time)
                 /\ activities # <<>>
                 /\ \A i \in 1..Len(activities) : ActivityVerdict(activities[i]).ok)

C16_Witness ==
    /\ ret.op = "Report.complete_validate"
    /\ ret.ok
    /\ responsible = SomeResponsible
    /\ date = SomeDate
    /\ entry_time = Clock(9, 0)
    /\ activities = <<ActA, ActB>>

\* C17: Report.complete_validate fails on a report without activities, with
\* "Report must contain at least one activity" when fields and times are
\* valid; required fields are checked before times and times before
\* activities; on a list with a failing activity the message names the
\* 1-based position of the first one.
C17_ReportCheckOrder ==
    ret.op = "Report.complete_validate"
    => LET fields == Report_validate_required_fields(responsible, student, date,
                                                     entry_time, exit_time)
           times == Report_validate_times(entry_time, exit_time)
           failing == {i \in 1..Len(activities) : ~ActivityVerdict(activities[i]).ok}
       IN  /\ activities = <<>> => ~ret.ok
           /\ (activities = <<>> /\ fields.ok /\ times.ok)
                 => ret.msg = "Report must contain at least one activity"
           /\ ~fields.ok => ret.msg = fields.msg
           /\ (fields.ok /\ ~times.ok) => ret.msg = times.msg
           /\ (fields.ok /\ times.ok /\ failing # {})
                 => /\ ~ret.ok
                    /\ \A k \in failing : ret.num <= k
                    /\ ret.num \in failing
                    /\ ret.msg = "Activity {i+1} invalid: "
                                    \o ActivityVerdict(activities[ret.num]).msg

C17_Witness ==
    /\ ret.op = "Report.complete_validate"
    /\ ~ret.ok
    /\ ret.num = 1
    /\ ret.msg = "Activity {i+1} invalid: Invalid start time: '{start_time}'. Use HH:MM format (00:00 - 23:59)"
    /\ activities = <<ActBadTime, ActNoTitle>>

-----------------------------------------------------------------------------
(* Claims about saving and loading a Report *)

\* C18: Report.from_dict(r.to_dict()) has the responsible, student, date,
\* entry_time and exit_time of r and as many activities, the i-th with the
\* title, start_time, end_time and images of the i-th of r.
C18_RoundTrip ==
    [][ret'.op = "copy"
         => /\ ret'.ok
            /\ responsible' = responsible
            /\ student' = student
            /\ date' = date
            /\ entry_time' = entry_time
            /\ exit_time' = exit_time
            /\ Len(activities') = Len(activities)
            /\ \A i \in 1..Len(activities) :
                  /\ activities'[i].title = activities[i].title
                  /\ activities'[i].start_time = activities[i].start_time
                  /\ activities'[i].end_time = activities[i].end_time
                  /\ activities'[i].images = activities[i].images]_vars

C18_Witness ==
    /\ ret.op = "copy"
    /\ ret.ok
    /\ date = SomeDate
    /\ entry_time = None
    /\ Len(activities) = 2
    /\ activities[2].images = <<Path_a_jpg, Path_e_gif>>

\* the dictionary has no date, or one that is not a string holding a date
DateMissingOrMalformed(d) ==
    \/ "date" \notin DOMAIN d
    \/ d["date"].t # "str"
    \/ fromisoformat(d["date"]).err # ""

\* C19: from_dict, and from_json on a file holding valid JSON, given a date
\* that is absent, empty, not an ISO date or not a string, succeed with a
\* Report whose date is today.
C19_BadDateGivesToday ==
    (/\ \/ ret.op = "from_dict"
        \/ ret.op = "from_json" /\ JsonFiles[ret.path].exists /\ JsonFiles[ret.path].valid
     /\ DateMissingOrMalformed(data))
    => (ret.ok /\ date = Today)

\* C20: from_dict on a dictionary without the key "activities" gives a Report
\* with no activity, and every absent field takes its default: "" for
\* responsible, student, title and description, "00:00" for the four times,
\* no image.
C20_MissingFieldsTakeDefaults ==
    ret.op = "from_dict"
    => /\ "activities" \notin DOMAIN data => (ret.ok /\ activities = <<>>)
       /\ ret.ok
          => /\ "responsible" \notin DOMAIN data => responsible = <<>>
             /\ "student" \notin DOMAIN data => student = <<>>
             /\ "entry_time" \notin DOMAIN data => entry_time = Clock(0, 0)
             /\ "exit_time" \notin DOMAIN data => exit_time = Clock(0, 0)
             /\ "activities" \in DOMAIN data
                => /\ Len(activities) = Len(data["activities"])
                   /\ \A i \in 1..Len(activities) :
                         LET act_data == data["activities"][i]
                             a == activities[i]
                         IN  /\ "title" \notin DOMAIN act_data => a.title = <<>>
                             /\ "description" \notin DOMAIN act_data => a.description = <<>>
                             /\ "start_time" \notin DOMAIN act_data => a.start_time = Clock(0, 0)
                             /\ "end_time" \notin DOMAIN act_data => a.end_time = Clock(0, 0)
                             /\ "images" \notin DOMAIN act_data => a.images = <<>>

-----------------------------------------------------------------------------
(* Claims about values derived from times and activities *)

\* a string of two digits, a colon and two digits
IsHHMM(s) ==
    /\ Len(s) = 5
    /\ s[3] = ":"
    /\ \A i \in {1, 2, 4, 5} : IsDigit(s[i])

ActivitySentinels == {InvalidStartTime, InvalidEndTime}
ReportSentinels == {InvalidEntryTime, InvalidExitTime}

\* C21: calculate_duration and calculate_instance_hours return a string for
\* any pair of values: HH:MM for a well-formed pair, a sentinel otherwise;
\* get_duration_in_minutes and get_instance_hours_in_minutes return 0
\* whenever the value calculated is a sentinel.
C21_SentinelInsteadOfFailure ==
    /\ ret.op = "calculate_duration"
          => /\ ret.ok
             /\ _duration = ret.val
             /\ IF IsTimeInRange(start_time) /\ IsTimeInRange(end_time)
                THEN IsHHMM(ret.val)
                ELSE ret.val \in ActivitySentinels
    /\ ret.op = "calculate_instance_hours"
          => /\ ret.ok
             /\ _instance_hours = ret.val
             /\ IF IsTimeInRange(entry_time) /\ IsTimeInRange(exit_time)
                THEN IsHHMM(ret.val)
                ELSE ret.val \in ReportSentinels
    /\ (ret.op = "get_duration_in_minutes" /\ _duration \in ActivitySentinels)
          => (ret.ok /\ ret.num = 0)
    /\ (ret.op = "get_instance_hours_in_minutes" /\ _instance_hours \in ReportSentinels)
          => (ret.ok /\ ret.num = 0)

C21_Witness ==
    /\ ret.op = "get_duration_in_minutes"
    /\ start_time = JsonInt(900)
    /\ end_time = Clock(9, 0)
    /\ _duration = InvalidStartTime
    /\ ret.num = 0

\* the minutes from start to end of an activity with zero-padded times, end
\* on the next day when it is not later than start; 0 with any other times
MinutesOfActivity(a) ==
    IF IsPaddedTime(a.start_time) /\ IsPaddedTime(a.end_time)
    THEN IF ClockMinutes(a.end_time) > ClockMinutes(a.start_time)
         THEN ClockMinutes(a.end_time) - ClockMinutes(a.start_time)
         ELSE ClockMinutes(a.end_time) + 24 * 60 - ClockMinutes(a.start_time)
    ELSE 0

RECURSIVE SumOfMinutes(_)
SumOfMinutes(acts) ==
    IF acts = <<>> THEN 0
    ELSE MinutesOfActivity(Head(acts)) + SumOfMinutes(Tail(acts))

\* C22: calculate_total_activity_hours returns the sum of the activities'
\* minutes as HH:MM, hours unbounded; durations 02:30 and 01:30 give "04:00",
\* no activity gives "00:00", a sentinel duration counts 0.
C22_TotalIsSumOfMinutes ==
    ret.op = "calculate_total_activity_hours"
    => /\ ret.val = HHMM(SumOfMinutes(activities))
       /\ activities = <<>> => ret.val = <<"0", "0", ":", "0", "0">>
       /\ (Len(activities) = 2 /\ MinutesOfActivity(activities[1]) = 150
           /\ MinutesOfActivity(activities[2]) = 90)
             => ret.val = <<"0", "4", ":", "0", "0">>

C22_Witness ==
    /\ ret.op = "calculate_total_activity_hours"
    /\ Len(activities) = 3
    /\ activities[1].title = <<"E">>
    /\ activities[2].title = <<"F">>
    /\ activities[3].title = <<"A">>
    /\ ret.val = <<"2", "6", ":", "3", "0">>

\* C23: average_activity_duration of get_statistics is the total minutes
\* divided by the number of activities, rounded down, as HH:MM; "00:00"
\* without activities; so average * count <= total < average * count + count.
C23_AverageIsFloor ==
    ret.op = "get_statistics"
    => LET n == Len(activities)
           total == SumOfMinutes(activities)
           avg == ret.stats.average_activity_duration
       IN  /\ IsHHMM(avg)
           /\ n = 0 => avg = <<"0", "0", ":", "0", "0">>
           /\ n > 0 => /\ avg = HHMM(total \div n)
                       /\ MinutesOfString(avg) * n <= total
                       /\ total < MinutesOfString(avg) * n + n

C23_Witness ==
    /\ ret.op = "get_statistics"
    /\ Len(activities) = 2
    /\ activities[1].title = <<"A">>
    /\ activities[2].title = <<"D">>
    /\ ret.stats.average_activity_duration = <<"0", "1", ":", "1", "5">>

\* C24: longest_activity (shortest_activity) of get_statistics is the title
\* of the first activity in list order among those with the most (fewest)
\* minutes; both are null without activities.
C24_FirstOfLongestAndShortest ==
    ret.op = "get_statistics"
    => IF activities = <<>>
       THEN ret.stats.longest_activity = None /\ ret.stats.shortest_activity = None
       ELSE \E i, j \in 1..Len(activities) :
              /\ ret.stats.longest_activity = Str(activities[i].title)
              /\ \A k \in 1..Len(activities) :
                    MinutesOfActivity(activities[k]) <= MinutesOfActivity(activities[i])
              /\ \A k \in 1..(i - 1) :
                    MinutesOfActivity(activities[k]) < MinutesOfActivity(activities[i])
              /\ ret.stats.shortest_activity = Str(activities[j].title)
              /\ \A k \in 1..Len(activities) :
                    MinutesOfActivity(activities[k]) >= MinutesOfActivity(activities[j])
              /\ \A k \in 1..(j - 1) :
                    MinutesOfActivity(activities[k]) > MinutesOfActivity(activities[j])

C24_Witness ==
    /\ ret.op = "get_statistics"
    /\ Len(activities) = 3
    /\ activities[1].title = <<"B">>
    /\ activities[2].title = <<"C">>
    /\ activities[3].title = <<"A">>
    /\ ret.stats.longest_activity = Str(<<"C">>)
    /\ ret.stats.shortest_activity = Str(<<"B">>)

\* C25: with zero-padded well-formed times, find_activities_by_time_range(s,
\* e) returns in list order exactly the activities whose start_time lies
\* between s and e inclusive on the clock, and none when s is later than e.
C25_RangeIsChronological ==
    (/\ ret.op = "find_activities_by_time_range"
     /\ \A i \in 1..Len(activities) : IsPaddedTime(activities[i].start_time))
    => LET s == ClockMinutes(ret.args[1])
           e == ClockMinutes(ret.args[2])
       IN  /\ ret.ok
           /\ ret.list = SelectSeq(activities,
                                   LAMBDA a : /\ s <= ClockMinutes(a.start_time)
                                              /\ ClockMinutes(a.start_time) <= e)
           /\ s > e => ret.list = <<>>

C25_Witness ==
    /\ ret.op = "find_activities_by_time_range"
    /\ ret.args = <<Clock(9, 0), Clock(10, 0)>>
    /\ Len(activities) = 3
    /\ activities[1].title = <<"C">>
    /\ activities[2].title = <<"A">>
    /\ activities[3].title = <<"B">>
    /\ ret.list = <<activities[1], activities[3]>>

-----------------------------------------------------------------------------
(* Specification of an Activity built without images, whose list is filled *)
(* by add_image and changed by the deletions and the reordering            *)

InitAdded ==
    /\ NoDialog
    /\ NoGenerator
    /\ ret = Result("__init__")
    /\ NewActivity(SomeTitle, SomeDescription, Clock(9, 0), Clock(11, 30), <<>>)
    /\ NewReport(DefaultTime, DefaultTime)

NextAdded ==
    \/ \E p \in Paths : add_image(p)
    \/ \E i \in -1..MAX_IMAGES : delete_image(i)
    \/ \E p \in Paths : delete_image_by_path(p)
    \/ \E o \in GeneratorOrders(Len(images)) : reorganize_images(o)
    \/ call_validate_images

SpecAdded == InitAdded /\ [][NextAdded]_vars

-----------------------------------------------------------------------------
(* ActivityDialog: the two time widgets and the duration shown *)

\* QTime.isValid()
isValid(t) == t.h \in 0..23 /\ t.m \in 0..59

\* QTime.toString("HH:mm")
toString(t) == Str(Format02d(t.h) \o <<":">> \o Format02d(t.m))

\* update_duration treating an end equal to the start as the same day
DurationDisplayOf_SameDay(start, end) ==
    LET start_minutes == start.h * 60 + start.m
        end0 == end.h * 60 + end.m
        end_minutes == IF end0 < start_minutes THEN end0 + 24 * 60 ELSE end0
        duration_minutes == end_minutes - start_minutes
        hours == FloorDiv(duration_minutes, 60)
        minutes == FloorMod(duration_minutes, 60)
    IN  Format02d(hours) \o <<":">> \o Format02d(minutes)

\* the text update_duration puts in duration_display
DurationDisplayOf(start, end) ==
    LET start_minutes == start.h * 60 + start.m
        end0 == end.h * 60 + end.m
        end_minutes == IF end0 <= start_minutes THEN end0 + 24 * 60 ELSE end0
        duration_minutes == end_minutes - start_minutes
        hours == FloorDiv(duration_minutes, 60)
        minutes == FloorMod(duration_minutes, 60)
    IN  Format02d(hours) \o <<":">> \o Format02d(minutes)

\* "parts = t.split(':'); QTime(int(parts[0]), int(parts[1]))" of
\* load_activity_data; raised stands for the exception its bare except takes
QTimeOfParts(t) ==
    IF ~isinstance_str(t) THEN [raised |-> TRUE, time |-> NullQTime]
    ELSE LET parts == Split(t.v)
         IN  IF Len(parts) < 2 THEN [raised |-> TRUE, time |-> NullQTime]
             ELSE IF ~IntOf(parts[1]).ok \/ ~IntOf(parts[2]).ok
             THEN [raised |-> TRUE, time |-> NullQTime]
             ELSE [raised |-> FALSE, time |-> QTime(IntOf(parts[1]).n, IntOf(parts[2]).n)]

\* QTimeEdit.setTime(t) on a widget showing old: an invalid time is ignored
setTime(old, t) == IF isValid(t) THEN t ELSE old

\* the widgets after setup_ui and load_activity_data for an Activity with the
\* times st and en: 09:00 and 12:00, then the times of the Activity as far as
\* they can be read
LoadedStart(st) ==
    IF QTimeOfParts(st).raised THEN QTime(9, 0)
    ELSE setTime(QTime(9, 0), QTimeOfParts(st).time)

LoadedEnd(st, en) ==
    IF QTimeOfParts(st).raised \/ QTimeOfParts(en).raised THEN QTime(12, 0)
    ELSE setTime(QTime(12, 0), QTimeOfParts(en).time)

\* ActivityDialog(activity = the Activity, mode = "EDIT")
OpenDialog ==
    /\ start_time_input = LoadedStart(start_time)
    /\ end_time_input = LoadedEnd(start_time, end_time)
    /\ duration_display = DurationDisplayOf(start_time_input, end_time_input)

\* the user changes the start time: timeChanged runs update_duration
start_time_input_timeChanged(t) ==
    /\ isValid(t)
    /\ start_time_input' = t
    /\ duration_display' = DurationDisplayOf(t, end_time_input)
    /\ ret' = Result("update_duration")
    /\ UNCHANGED <<activityFields, reportFields, end_time_input, generatorFields>>

\* the user changes the end time
end_time_input_timeChanged(t) ==
    /\ isValid(t)
    /\ end_time_input' = t
    /\ duration_display' = DurationDisplayOf(start_time_input, t)
    /\ ret' = Result("update_duration")
    /\ UNCHANGED <<activityFields, reportFields, start_time_input, generatorFields>>

\* validate_form on the texts of the title and description widgets
validate_form(title_text, description_text) ==
    IF strip(title_text) = <<>> THEN Verdict(FALSE, "Title is required", 0)
    ELSE IF strip(description_text) = <<>> THEN Verdict(FALSE, "Description is required", 0)
    ELSE Verdict(TRUE, "Valid", 0)

\* save_activity with the texts typed in the title and description widgets;
\* image_paths is the list of images of the Activity being edited.  The new
\* Activity is assigned to self.activity before it is validated.
save_activity(title_text, description_text) ==
    \E form \in {validate_form(title_text, description_text)} :
        IF ~form.ok
        THEN /\ ret' = [Result("save_activity") EXCEPT !.ok = FALSE, !.msg = form.msg]
             /\ UNCHANGED <<activityFields, reportFields, dialogFields, generatorFields>>
        ELSE /\ title' = strip(title_text)
             /\ description' = strip(description_text)
             /\ start_time' = toString(start_time_input)
             /\ end_time' = toString(end_time_input)
             /\ _duration' = InitialDuration(start_time', end_time')
             /\ \E v \in {complete_validate(title', description', start_time', end_time', images)} :
                    ret' = [Result("save_activity") EXCEPT
                              !.ok = v.ok, !.msg = IF v.ok THEN "accept" ELSE v.msg]
             /\ UNCHANGED <<images, reportFields, dialogFields, generatorFields>>

\* times of an Activity or a Report opened next to the dialog
DialogTimes == {Clock(0, 0), Clock(9, 0), Clock(23, 59), Str(<<"9", ":", "5">>)}
\* times the user sets in a widget
WidgetTimes == {QTime(0, 0), QTime(9, 0), QTime(9, 5), QTime(23, 59)}
DialogTitles == {SomeTitle, <<" ", "T", " ">>, <<" ">>}
DialogDescriptions == {SomeDescription, <<>>}

InitDialog ==
    /\ ret = Result("__init__")
    /\ \E s \in DialogTimes, e \in DialogTimes :
          NewActivity(SomeTitle, SomeDescription, s, e, <<>>)
    /\ \E s \in DialogTimes, e \in DialogTimes : NewReport(s, e)
    /\ OpenDialog
    /\ NoGenerator

NextDialog ==
    \/ \E t \in WidgetTimes : start_time_input_timeChanged(t)
    \/ \E t \in WidgetTimes : end_time_input_timeChanged(t)
    \/ \E ti \in DialogTitles, de \in DialogDescriptions : save_activity(ti, de)

SpecDialog == InitDialog /\ [][NextDialog]_vars

-----------------------------------------------------------------------------
(* PDFGenerator: the temporary compressed images *)

MaxTempFiles == 4
MaxPdfActivities == 2

\* the mode PIL gives the image of a file: a.jpg is a colour JPEG, b.PNG a
\* grey PNG with an alpha channel, and d/c.jpeg is no image, so that
\* PILImage.open raises
ImageModes ==
    [p \in Paths |-> IF p = Path_a_jpg THEN "RGB"
                     ELSE IF p = Path_b_PNG THEN "LA"
                     ELSE ""]

\* the mode after "if img.mode in ('RGBA', 'P')": those two become RGB
ModeToSave(mode) == IF mode \in {"RGBA", "P"} THEN "RGB" ELSE mode

\* the modes img.save(name, 'JPEG') writes; for the others it raises OSError
JpegModes == {"1", "L", "RGB", "RGBX", "CMYK", "YCbCr"}

\* the name tempfile.NamedTemporaryFile gives a new file: one not in use
NewTempName(dir) == CHOOSE n \in 1..(MaxTempFiles + 1) :
                        n \notin dir /\ \A k \in 1..(n - 1) : k \in dir

\* the tracked names and the temporary directory after _compress_image: the
\* file is created before img.save, its name is appended after
CompressedImage(st, image_path) ==
    IF ImageModes[image_path] = "" THEN st
    ELSE LET name == NewTempName(st.tempdir)
         IN  IF ModeToSave(ImageModes[image_path]) \in JpegModes
             THEN [temp_images |-> Append(st.temp_images, name),
                   tempdir |-> st.tempdir \cup {name}]
             ELSE [temp_images |-> st.temp_images,
                   tempdir |-> st.tempdir \cup {name}]

RECURSIVE CompressedImages(_, _)
\* "[self._compress_image(img) for img in images]" of _create_image_grid
CompressedImages(st, imgs) ==
    IF imgs = <<>> THEN st
    ELSE CompressedImages(CompressedImage(st, Head(imgs)), Tail(imgs))

RECURSIVE ActivitySections(_, _)
\* the loop of generate over the activities, each grid compressing its images
ActivitySections(st, acts) ==
    IF acts = <<>> THEN st
    ELSE ActivitySections(CompressedImages(st, Head(acts).images), Tail(acts))

\* _cleanup_temp_images: every tracked file that exists is removed
CleanedUp(st) ==
    [temp_images |-> <<>>, tempdir |-> st.tempdir \ SetOf(st.temp_images)]

\* generator.generate(output_path); built says whether doc.build ended
\* without an exception
generate(output_path, built) ==
    \E v \in {Report_complete_validate(responsible, student, date,
                                       entry_time, exit_time, activities)} :
        IF ~v.ok
        THEN /\ ret' = [Result("generate") EXCEPT
                          !.ok = FALSE, !.msg = "Invalid report: " \o v.msg,
                          !.path = output_path]
             /\ UNCHANGED <<activityFields, reportFields, dialogFields, generatorFields>>
        ELSE /\ get_total_images_count(activities) + Cardinality(tempdir) <= MaxTempFiles
             /\ \E st \in {CleanedUp(ActivitySections(
                              [temp_images |-> temp_images, tempdir |-> tempdir],
                              activities))} :
                    /\ temp_images' = st.temp_images
                    /\ tempdir' = st.tempdir
             /\ _instance_hours' = InstanceHoursRead(entry_time, exit_time, _instance_hours)
             /\ activities' = ActivitiesMeasured(activities)
             /\ ret' = [Result("generate") EXCEPT
                          !.ok = built,
                          !.msg = IF built THEN "PDF generated successfully: {output_path}"
                                  ELSE "Error generating PDF: {e}",
                          !.path = output_path]
             /\ UNCHANGED <<activityFields, entry_time, exit_time, responsible, student,
                            date, data, dialogFields>>

\* activities with a grey PNG, and with a file that is no image before a JPEG
ActGrey == MkActivity(<<"G">>, SomeDescription, Clock(9, 0), Clock(11, 30), <<Path_b_PNG>>)
ActNoImageFile == MkActivity(<<"H">>, SomeDescription, Clock(9, 0), Clock(11, 30),
                             <<Path_d_c_jpeg, Path_a_jpg>>)
PdfActivities == {ActA, ActB, ActC, ActGrey, ActNoImageFile}
PdfResponsibles == {<<>>, SomeResponsible}
Path_out_pdf == <<"o", "u", "t", ".", "p", "d", "f">>

InitPdf ==
    /\ NoDialog
    /\ NoGenerator
    /\ ret = Result("__init__")
    /\ NewActivity(SomeTitle, SomeDescription, DefaultTime, DefaultTime, <<>>)
    /\ \E resp \in PdfResponsibles, acts \in SeqsUpTo(PdfActivities, MaxPdfActivities) :
          NewReportWith(resp, SomeStudent, SomeDate, Clock(9, 0), Clock(11, 30), acts)

NextPdf == \E built \in BOOLEAN : generate(Path_out_pdf, built)

SpecPdf == InitPdf /\ [][NextPdf]_vars

-----------------------------------------------------------------------------
(* Further claims about the images and the durations *)

\* C26: delete_image removes exactly the image at an index in 0..len-1 and
\* fails with "Invalid index" otherwise, negative indices included;
\* delete_image_by_path removes the first occurrence of the path and fails
\* with "Image not found" when there is none; a failure changes nothing and
\* the other images keep their order.
C26_DeleteRemovesOneImage ==
    [][/\ ret'.op = "delete_image"
          => IF 0 <= ret'.idx /\ ret'.idx < Len(images)
             THEN ret'.ok /\ images' = Without(images, ret'.idx)
             ELSE ~ret'.ok /\ ret'.msg = "Invalid index" /\ images' = images
       /\ ret'.op = "delete_image_by_path"
          => IF \E k \in 1..Len(images) : images[k] = ret'.path
             THEN /\ ret'.ok
                  /\ \E k \in 1..Len(images) :
                        /\ images[k] = ret'.path
                        /\ \A j \in 1..(k - 1) : images[j] # ret'.path
                        /\ images' = Without(images, k - 1)
             ELSE ~ret'.ok /\ ret'.msg = "Image not found" /\ images' = images]_vars

C26_Witness ==
    /\ ret.op = "delete_image_by_path"
    /\ ret.ok
    /\ ret.path = Path_a_jpg
    /\ images = <<Path_b_PNG, Path_a_jpg, Path_b_PNG>>

\* the QTime a string accepted by "%H:%M" stands for
QTimeOfClock(x) == QTime(strptime(x.v).secs \div 3600, (strptime(x.v).secs % 3600) \div 60)

\* C27: calculate_duration, calculate_instance_hours and the dialog's
\* update_duration give the same HH:MM string for the same pair of times, so
\* the duration the dialog shows is the duration of the Activity it creates.
C27_SameDurationEverywhere ==
    /\ (ret.op = "save_activity" /\ ret.ok) => _duration = duration_display
    /\ (/\ QTimeOfClock(start_time) = start_time_input
        /\ QTimeOfClock(end_time) = end_time_input) => _duration = duration_display
    /\ (/\ QTimeOfClock(entry_time) = start_time_input
        /\ QTimeOfClock(exit_time) = end_time_input) => _instance_hours = duration_display

C27_Witness ==
    /\ ret.op = "save_activity"
    /\ ret.ok
    /\ start_time_input = QTime(23, 59)
    /\ end_time_input = QTime(23, 59)
    /\ entry_time = start_time
    /\ exit_time = end_time
    /\ duration_display = <<"2", "4", ":", "0", "0">>

\* the hours part of a duration string
HoursPart(d) == IntOf(Split(d)[1]).n

\* C28: for well-formed times the duration lies in 1..1440 minutes and is
\* never 0: equal start and end give "24:00", so does an Activity or a Report
\* built with the default times 00:00 and 00:00, and the hours part of one
\* duration is at most 24.
C28_DurationWithinOneDay ==
    /\ (_validate_format_hour(start_time) /\ _validate_format_hour(end_time))
       => /\ MinutesOfString(_duration) \in 1..(24 * 60)
          /\ HoursPart(_duration) <= 24
          /\ strptime(start_time.v).secs = strptime(end_time.v).secs
                => _duration = <<"2", "4", ":", "0", "0">>
          /\ ret.op = "get_duration_in_minutes" => ret.num \in 1..(24 * 60)
    /\ (Report_validate_format_hour(entry_time) /\ Report_validate_format_hour(exit_time))
       => /\ MinutesOfString(_instance_hours) \in 1..(24 * 60)
          /\ HoursPart(_instance_hours) <= 24
          /\ strptime(entry_time.v).secs = strptime(exit_time.v).secs
                => _instance_hours = <<"2", "4", ":", "0", "0">>
          /\ ret.op = "get_instance_hours_in_minutes" => ret.num \in 1..(24 * 60)
    /\ (start_time = DefaultTime /\ end_time = DefaultTime)
       => _duration = <<"2", "4", ":", "0", "0">>
    /\ (entry_time = DefaultTime /\ exit_time = DefaultTime)
       => _instance_hours = <<"2", "4", ":", "0", "0">>

C28_Witness ==
    /\ ret.op = "get_duration_in_minutes"
    /\ start_time = Clock(23, 59)
    /\ end_time = Clock(23, 59)
    /\ ret.num = 24 * 60
    /\ entry_time = DefaultTime
    /\ exit_time = DefaultTime
    /\ _instance_hours = <<"2", "4", ":", "0", "0">>

\* C29: a list of images filled from empty by add_image, and changed only by
\* delete_image, delete_image_by_path and reorganize_images, passes
\* validate_images while the files stay as they are: an image add_image
\* accepts exists and has an allowed extension, and the list never exceeds
\* MAX_IMAGES.
C29_AddedImagesAreValid ==
    /\ validate_images(images).ok
    /\ Len(images) <= MAX_IMAGES
    /\ \A i \in 1..Len(images) :
          /\ os_path_exists(images[i])
          /\ lower(splitext_ext(images[i])) \in FORMATS_ALLOW_IMAGE
    /\ ret.op = "validate_images" => ret.ok /\ ret.msg = "Valid images"

C29_Witness ==
    /\ ret.op = "validate_images"
    /\ ret.ok
    /\ images = <<Path_b_PNG, Path_a_jpg, Path_a_jpg, Path_a_jpg, Path_b_PNG>>

\* C30: when generate returns, with success or with any failure, temp_images
\* is empty and no temporary file created during the call is left, the file
\* of an image whose compression failed included; for an invalid report it
\* returns the failure before any temporary file is created.
C30_NoTemporaryFileLeft ==
    [][ret'.op = "generate"
       => /\ temp_images' = <<>>
          /\ tempdir' \subseteq tempdir]_vars

====
